---- MODULE Spec2Model ----
(***************************************************************************)
(* A model of the ML-KEM-512 core of fips203ipd (src/fips203.c): the       *)
(* polynomial layer, the byte codecs, the K-PKE scheme and the KEM         *)
(* wrapper, as a state machine over the caller's key, ciphertext and       *)
(* shared-key buffers.                                                     *)
(*                                                                         *)
(* Byte buffers and polynomials are functions over 0..n-1, as C arrays     *)
(* are.  C loops are folded with Iter, a strict fold over an index range.  *)
(* The SHA-3 / SHAKE primitives are declared in src/sha3.h but their       *)
(* implementation is not part of the sources: they are modelled as a       *)
(* deterministic absorb-then-squeeze stand-in with the declared output     *)
(* lengths (see "SHA-3 interface" below).                                  *)
(***************************************************************************)
EXTENDS Integers, Sequences, FiniteSets, TLC

(***************************************************************************)
(* Parameters of the program.                                              *)
(***************************************************************************)
Q == 3329

PKE512_K == 2

PKE512_DU == 10

PKE512_DV == 4

PKE512_EK_SIZE == 384 * PKE512_K + 32

PKE512_DK_SIZE == 384 * PKE512_K

PKE512_CT_SIZE == 32 * (PKE512_DU * PKE512_K + PKE512_DV)

FIPS203_KEM512_EK_SIZE == 800

FIPS203_KEM512_DK_SIZE == 1632

FIPS203_KEM512_CT_SIZE == 768

(***************************************************************************)
(* Bounds of the model.                                                    *)
(***************************************************************************)
\* keygen seeds the caller may pass: ids 0 .. NumSeeds-1
NumSeeds == 2

\* encapsulation seeds the caller may pass: ids 0 .. NumMsgs-1
NumMsgs == 2

\* 3-byte squeezes poly_sample_ntt's loop is followed for
MaxSqueeze == 256

\* polynomials the codecs are exercised on: ids 0 .. NumPolys-1, polynomial
\* id holding the values 256 * id .. 256 * id + 255 (mod Q), so that 14 of
\* them carry every value of [0, Q)
NumPolys == 14

\* number of raw byte strings given to poly_decode
NumRaw == 3

(***************************************************************************)
(* C integer operators on naturals.                                        *)
(***************************************************************************)
Bit(a, n) == (a \div (2 ^ n)) % 2

\* four bits at a time
RECURSIVE BitAnd(_, _)
BitAnd(a, b) ==
  IF a = 0 \/ b = 0 THEN 0
  ELSE Bit(a, 0) * Bit(b, 0) + 2 * (Bit(a, 1) * Bit(b, 1))
       + 4 * (Bit(a, 2) * Bit(b, 2)) + 8 * (Bit(a, 3) * Bit(b, 3))
       + 16 * BitAnd(a \div 16, b \div 16)

RECURSIVE BitXor(_, _)
BitXor(a, b) ==
  IF a = 0 THEN b
  ELSE IF b = 0 THEN a
  ELSE ((Bit(a, 0) + Bit(b, 0)) % 2) + 2 * ((Bit(a, 1) + Bit(b, 1)) % 2)
       + 4 * ((Bit(a, 2) + Bit(b, 2)) % 2) + 8 * ((Bit(a, 3) + Bit(b, 3)) % 2)
       + 16 * BitXor(a \div 16, b \div 16)

\* a | b = (a ^ b) + (a & b)
BitOr(a, b) == BitXor(a, b) + BitAnd(a, b)

Shl(a, n) == a * (2 ^ n)

Shr(a, n) == a \div (2 ^ n)

\* a store into a uint8_t / uint16_t slot
U8(x) == x % 256

U16(x) == x % 65536

\* C's x % m, which truncates toward zero
CMod(x, m) == IF x >= 0 THEN x % m ELSE -((-x) % m)

(***************************************************************************)
(* for (i = lo; i < hi; i++) s = F(s, i): the fold is split in halves so   *)
(* that its depth is logarithmic, and the state a half starts from is      *)
(* computed (s = s) before the half is entered.                            *)
(***************************************************************************)
RECURSIVE Iter(_, _, _, _)
Iter(F(_, _), s, lo, hi) ==
  IF s = s
  THEN IF hi - lo <= 1 THEN (IF lo >= hi THEN s ELSE F(s, lo))
       ELSE Iter(F, Iter(F, s, lo, (lo + hi) \div 2), (lo + hi) \div 2, hi)
  ELSE s

(***************************************************************************)
(* Byte buffers.                                                           *)
(***************************************************************************)
\* uint8_t buf[n] = { 0 }
ZeroBytes(n) == [i \in 0..(n - 1) |-> 0]

\* the n bytes at buf + off
Slice(buf, off, n) == [i \in 0..(n - 1) |-> buf[off + i]]

BufLen(buf) == Cardinality(DOMAIN buf)

\* what a buffer becomes when a write runs past its end
Overrun == << >>

\* memcpy(buf + off, src, n)
MemCpy(buf, off, src, n) ==
  IF off + n > BufLen(buf) THEN Overrun
  ELSE [i \in DOMAIN buf |-> IF i >= off /\ i < off + n THEN src[i - off] ELSE buf[i]]

\* poly_t p = { 0 }
ZeroPoly == [i \in 0..255 |-> 0]

(***************************************************************************)
(* SHA-3 interface (src/sha3.h declares it; the implementation is not in   *)
(* the sources).  A message is absorbed byte by byte into a sponge state   *)
(* and output byte n is a function of the state, the primitive and n, so   *)
(* each primitive is a deterministic function of its whole input with the  *)
(* declared output length, and the four primitives are domain-separated.   *)
(***************************************************************************)
SpongeAbsorbByte(h, b) == (h * 251 + b + 1) % 8388593

SpongeAbsorb(h, msg, n) ==
  LET F(s, i) == SpongeAbsorbByte(s, msg[i]) IN Iter(F, h, 0, n)

SpongeSqueezeByte(h, tag, n) ==
  LET a == (h + tag * 1000003 + n * 7919) % 46337
      b == ((h \div 181) + tag * 131 + n * 104729) % 46327
  IN (((a * a) % 46337) + 3 * ((b * b) % 46327) + ((a * b) % 251)) % 256

sha3_256(src, len) ==
  LET h == SpongeAbsorb(1, src, len) IN [n \in 0..31 |-> SpongeSqueezeByte(h, 1, n)]

sha3_512(src, len) ==
  LET h == SpongeAbsorb(2, src, len) IN [n \in 0..63 |-> SpongeSqueezeByte(h, 2, n)]

\* SHAKE256 of src, dst_len bytes of output
shake256_xof_once(src, src_len, dst_len) ==
  LET h == SpongeAbsorb(4, src, src_len)
  IN [n \in 0..(dst_len - 1) |-> SpongeSqueezeByte(h, 4, n)]

\* SHAKE256 of msg, 32 bytes of output
shake256(msg, len) == shake256_xof_once(msg, len, 32)

\* SHAKE128 context after absorbing msg: the sponge state
shake128_xof_absorb(h, msg, len) == SpongeAbsorb(h, msg, len)

\* byte n of the SHAKE128 output stream of context xof
shake128_xof_squeeze(xof, n) == SpongeSqueezeByte(xof, 3, n)

(***************************************************************************)
(* Lookup tables.                                                          *)
(***************************************************************************)
NTT_LUT_values ==
  <<
     1, 1729, 2580, 3289, 2642, 630, 1897, 848, 1062, 1919, 193, 797, 2786, 3260, 569, 1746,
     296, 2447, 1339, 1476, 3046, 56, 2240, 1333, 1426, 2094, 535, 2882, 2393, 2879, 1974, 821,
     289, 331, 3253, 1756, 1197, 2304, 2277, 2055, 650, 1977, 2513, 632, 2865, 33, 1320, 1915,
     2319, 1435, 807, 452, 1438, 2868, 1534, 2402, 2647, 2617, 1481, 648, 2474, 3110, 1227, 910,
     17, 2761, 583, 2649, 1637, 723, 2288, 1100, 1409, 2662, 3281, 233, 756, 2156, 3015, 3050,
     1703, 1651, 2789, 1789, 1847, 952, 1461, 2687, 939, 2308, 2437, 2388, 733, 2337, 268, 641,
     1584, 2298, 2037, 3220, 375, 2549, 2090, 1645, 1063, 319, 2773, 757, 2099, 561, 2466, 2594,
     2804, 1092, 403, 1026, 1143, 2150, 2775, 886, 1722, 1212, 1874, 1029, 2110, 2935, 885, 2154
  >>

MUL_LUT_values ==
  <<
     17, 3312, 2761, 568, 583, 2746, 2649, 680, 1637, 1692, 723, 2606, 2288, 1041, 1100, 2229,
     1409, 1920, 2662, 667, 3281, 48, 233, 3096, 756, 2573, 2156, 1173, 3015, 314, 3050, 279,
     1703, 1626, 1651, 1678, 2789, 540, 1789, 1540, 1847, 1482, 952, 2377, 1461, 1868, 2687, 642,
     939, 2390, 2308, 1021, 2437, 892, 2388, 941, 733, 2596, 2337, 992, 268, 3061, 641, 2688,
     1584, 1745, 2298, 1031, 2037, 1292, 3220, 109, 375, 2954, 2549, 780, 2090, 1239, 1645, 1684,
     1063, 2266, 319, 3010, 2773, 556, 757, 2572, 2099, 1230, 561, 2768, 2466, 863, 2594, 735,
     2804, 525, 1092, 2237, 403, 2926, 1026, 2303, 1143, 2186, 2150, 1179, 2775, 554, 886, 2443,
     1722, 1607, 1212, 2117, 1874, 1455, 1029, 2300, 2110, 1219, 2935, 394, 885, 2444, 2154, 1175
  >>

\* a table of the powers of 17 in natural order, 17^n mod q
NTT_LUT_natural_order ==
  LET F(t, n) == [m \in 0..127 |-> IF m = n THEN (IF n = 0 THEN 1 ELSE (t[n - 1] * 17) % Q)
                                   ELSE t[m]]
  IN Iter(F, [m \in 0..127 |-> 0], 0, 128)

NTT_LUT == [n \in 0..127 |-> NTT_LUT_values[n + 1]]

MUL_LUT == [n \in 0..127 |-> MUL_LUT_values[n + 1]]

(***************************************************************************)
(* Arithmetic on uint32_t values, held as two 16-bit limbs <<hi, lo>>.     *)
(***************************************************************************)
\* the uint32_t product of two values below 2^16
Mul16(a, b) ==
  LET m == (a \div 256) * b
      l == ((m % 256) * 256) + ((a % 256) * b)
  IN <<((m \div 256) + (l \div 65536)) % 65536, l % 65536>>

\* x + y as uint32_t
Add32(x, y) ==
  LET l == x[2] + y[2]
  IN <<(x[1] + y[1] + (l \div 65536)) % 65536, l % 65536>>

\* x * y as uint32_t
Mul32(x, y) ==
  LET ll == Mul16(x[2], y[2])
      hl == Mul16(x[1], y[2])
      lh == Mul16(x[2], y[1])
  IN <<(ll[1] + hl[2] + lh[2]) % 65536, ll[2]>>

\* x % Q for a uint32_t x (65536 % Q = 2285)
Mod32Q(x) == (((x[1] % Q) * 2285) + x[2]) % Q

(***************************************************************************)
(* Samplers.                                                               *)
(***************************************************************************)
shake128_xof_init == 3

\* the SHAKE128 context after absorbing r, i and j
xof_init(r, i, j) ==
  LET ij == [n \in 0..1 |-> IF n = 0 THEN i ELSE j]
  IN shake128_xof_absorb(shake128_xof_absorb(shake128_xof_init, r, 32), ij, 2)

\* the two 12-bit samples d1, d2 of the n-th squeeze of 3 bytes
SampleNttPair(xof, n) ==
  LET ds0 == shake128_xof_squeeze(xof, 3 * n)
      ds1 == shake128_xof_squeeze(xof, 3 * n + 1)
      ds2 == shake128_xof_squeeze(xof, 3 * n + 2)
  IN <<BitOr(ds0, Shl(BitAnd(ds1, 15), 8)), BitOr(Shr(ds1, 4), Shl(ds2, 4))>>

\* SampleNttStep with a loop that runs MaxSqueeze times whatever i is
SampleNttStep_fixed_count(st, n) ==
  LET d == SampleNttPair(st.xof, n)
      s0 == [st EXCEPT !.sq = st.sq + 1]
      s1 == IF d[1] < Q /\ s0.i < 256
            THEN [s0 EXCEPT !.a = [s0.a EXCEPT ![s0.i] = d[1]], !.i = s0.i + 1]
            ELSE s0
  IN IF d[2] < Q /\ s1.i < 256
     THEN [s1 EXCEPT !.a = [s1.a EXCEPT ![s1.i] = d[2]], !.i = s1.i + 1]
     ELSE s1

\* SampleNttStep that considers d2 before d1
SampleNttStep_d2_first(st, n) ==
  IF st.i >= 256 THEN st
  ELSE LET d == SampleNttPair(st.xof, n)
           s0 == [st EXCEPT !.sq = st.sq + 1]
           s1 == IF d[2] < Q
                 THEN [s0 EXCEPT !.a = [s0.a EXCEPT ![s0.i] = d[2]], !.i = s0.i + 1]
                 ELSE s0
       IN IF d[1] < Q /\ s1.i < 256
          THEN [s1 EXCEPT !.a = [s1.a EXCEPT ![s1.i] = d[1]], !.i = s1.i + 1]
          ELSE s1

\* one iteration of poly_sample_ntt's loop, the n-th squeeze of 3 bytes;
\* st.a is the polynomial, st.i the number of coefficients filled and st.sq
\* the number of iterations made (the loop ends when i reaches 256)
SampleNttStep(st, n) ==
  IF st.i >= 256 THEN st
  ELSE LET d == SampleNttPair(st.xof, n)
           s0 == [st EXCEPT !.sq = st.sq + 1]
           s1 == IF d[1] < Q
                 THEN [s0 EXCEPT !.a = [s0.a EXCEPT ![s0.i] = d[1]], !.i = s0.i + 1]
                 ELSE s0
       IN IF d[2] < Q /\ s1.i < 256
          THEN [s1 EXCEPT !.a = [s1.a EXCEPT ![s1.i] = d[2]], !.i = s1.i + 1]
          ELSE s1

\* the locals of poly_sample_ntt when its loop has ended
poly_sample_ntt_run(a, rho, i, j) ==
  Iter(SampleNttStep, [xof |-> xof_init(rho, i, j), a |-> a, i |-> 0, sq |-> 0],
       0, MaxSqueeze)

poly_sample_ntt(a, rho, i, j) == poly_sample_ntt_run(a, rho, i, j).a

\* len bytes of SHAKE256 over seed || b
prf(seed, b, len) ==
  LET buf == [n \in 0..32 |-> IF n < 32 THEN seed[n] ELSE b]
  IN shake256_xof_once(buf, 33, len)

\* bit ofs of buf: (buf[ofs / 8] >> (ofs % 8)) & 0x01
BufBit(buf, ofs) == Shr(buf[ofs \div 8], ofs % 8) % 2

\* poly_sample_cbd_eta that reads y from the bits it read x from
poly_sample_cbd_eta_run_y_is_x(ETA, seed, b) ==
  LET buf == prf(seed, b, 64 * ETA)
      X(i) == LET F(x, j) == x + BufBit(buf, 2 * i * ETA + j) IN Iter(F, 0, 0, ETA)
  IN [buf |-> buf, p |-> [i \in 0..255 |-> (X(i) + (Q - X(i))) % Q]]

\* poly_sample_cbd_eta ## ETA: buf is the local buffer after prf(), p the
\* polynomial written
poly_sample_cbd_eta_run(ETA, seed, b) ==
  LET buf == prf(seed, b, 64 * ETA)
      X(i) == LET F(x, j) == x + BufBit(buf, 2 * i * ETA + j) IN Iter(F, 0, 0, ETA)
      Y(i) == LET F(y, j) == y + BufBit(buf, 2 * i * ETA + ETA + j) IN Iter(F, 0, 0, ETA)
  IN [buf |-> buf, p |-> [i \in 0..255 |-> (X(i) + (Q - Y(i))) % Q]]

poly_sample_cbd_eta(ETA, seed, b) == poly_sample_cbd_eta_run(ETA, seed, b).p

poly_sample_cbd_eta3(seed, b) == poly_sample_cbd_eta(3, seed, b)

poly_sample_cbd_eta2(seed, b) == poly_sample_cbd_eta(2, seed, b)

(***************************************************************************)
(* Number-theoretic transform.                                             *)
(***************************************************************************)
\* the body of poly_ntt's inner loop
NttButterfly(zeta, len, p, j) ==
  LET t == (zeta * p[j + len]) % Q
  IN [p EXCEPT ![j + len] = (p[j] + (Q - t)) % Q,
               ![j] = (p[j] + t) % Q]

\* NttBlock with a table counter that stays where it is
NttBlock_same_k(len, st, start) ==
  LET zeta == NTT_LUT[st.k]
      F(p, j) == NttButterfly(zeta, len, p, j)
  IN [p |-> Iter(F, st.p, start, start + len), k |-> st.k,
      blocks |-> Append(st.blocks, [len |-> len, start |-> start, k |-> st.k])]

\* one block of poly_ntt: st.p is the polynomial, st.k the table counter,
\* st.blocks the blocks processed so far, each with its len, its start and
\* the table index it read
NttBlock(len, st, start) ==
  LET zeta == NTT_LUT[st.k]
      F(p, j) == NttButterfly(zeta, len, p, j)
  IN [p |-> Iter(F, st.p, start, start + len), k |-> U8(st.k + 1),
      blocks |-> Append(st.blocks, [len |-> len, start |-> start, k |-> st.k])]

\* the blocks of one len of poly_ntt: start = 0, 2 len, 4 len, ... < 256
NttLayer(len, st) ==
  LET F(s, b) == NttBlock(len, s, 2 * len * b)
  IN Iter(F, st, 0, 256 \div (2 * len))

\* the locals of poly_ntt when its loops have ended
poly_ntt_run(p) ==
  LET F(st, l) == NttLayer(128 \div (2 ^ l), st)
  IN Iter(F, [p |-> p, k |-> 1, blocks |-> << >>], 0, 7)

poly_ntt(p) == poly_ntt_run(p).p

\* the body of poly_inv_ntt's inner loop
InvNttButterfly(zeta, len, p, j) ==
  LET t == p[j]
  IN [p EXCEPT ![j] = (t + p[j + len]) % Q,
               ![j + len] = U16(CMod(zeta * (p[j + len] + (Q - t)), Q))]

InvNttBlock(len, st, start) ==
  LET zeta == NTT_LUT[st.k]
      F(p, j) == InvNttButterfly(zeta, len, p, j)
  IN [p |-> Iter(F, st.p, start, start + len), k |-> U8(st.k + 255),
      blocks |-> Append(st.blocks, [len |-> len, start |-> start, k |-> st.k])]

InvNttLayer(len, st) ==
  LET F(s, b) == InvNttBlock(len, s, 2 * len * b)
  IN Iter(F, st, 0, 256 \div (2 * len))

\* poly_inv_ntt without the final multiplication by 3303
poly_inv_ntt_unscaled(p) ==
  LET F(st, l) == InvNttLayer(2 * (2 ^ l), st)
  IN Iter(F, [p |-> p, k |-> 127, blocks |-> << >>], 0, 7).p

\* the locals of poly_inv_ntt when its butterfly loops have ended
poly_inv_ntt_run(p) ==
  LET F(st, l) == InvNttLayer(2 * (2 ^ l), st)
  IN Iter(F, [p |-> p, k |-> 127, blocks |-> << >>], 0, 7)

poly_inv_ntt(p) ==
  LET r == poly_inv_ntt_run(p).p
  IN [i \in 0..255 |-> (r[i] * 3303) % Q]

(***************************************************************************)
(* Polynomial arithmetic.                                                  *)
(***************************************************************************)
\* poly_add without the reduction modulo Q
poly_add_unreduced(a, b) == [i \in 0..255 |-> U16(a[i] + b[i])]

poly_add(a, b) == [i \in 0..255 |-> (a[i] + b[i]) % Q]

\* (uint32_t) (Q - b) wraps when b > Q (2^32 % Q = 1353)
poly_sub(a, b) ==
  [i \in 0..255 |->
     IF b[i] <= Q THEN (a[i] + (Q - b[i])) % Q
     ELSE IF a[i] + Q - b[i] >= 0 THEN (a[i] + Q - b[i]) % Q
     ELSE (((a[i] + Q - b[i]) % Q) + 1353) % Q]

\* the products are uint32_t: they wrap modulo 2^32 before the % Q
poly_mul(a, b) ==
  [n \in 0..255 |->
     LET i == n \div 2
         a0 == <<0, a[2 * i]>>
         a1 == <<0, a[2 * i + 1]>>
         b0 == <<0, b[2 * i]>>
         b1 == <<0, b[2 * i + 1]>>
     IN IF n % 2 = 0
        THEN Mod32Q(Add32(Mul32(a0, b0), Mul32(Mul32(a1, b1), <<0, MUL_LUT[i]>>)))
        ELSE Mod32Q(Add32(Mul32(a0, b1), Mul32(a1, b0)))]

(***************************************************************************)
(* Byte codecs.  An encoder yields the block of bytes it writes at out; a  *)
(* decoder takes the block of bytes at b.                                  *)
(***************************************************************************)
poly_encode(a) ==
  [n \in 0..383 |->
     LET i == n \div 3
         a0 == a[2 * i]
         a1 == a[2 * i + 1]
     IN CASE n % 3 = 0 -> U8(a0)
          [] n % 3 = 1 -> U8(BitOr(Shr(BitAnd(a0, 3840), 4), Shl(BitAnd(a1, 15), 4)))
          [] OTHER -> U8(Shr(BitAnd(a1, 4080), 4))]

\* the four compressed coefficients of group i of poly_encode_10bit
Compress10(p, i) ==
  [m \in 0..3 |->
     IF m = 0
     THEN U16(Shr(p[4 * i], 2) + BitAnd(Shr(p[4 * i], 2), 1))
     ELSE U16(Shr(p[4 * i + m], 2) + BitAnd(Shr(p[4 * i + m], 1), 1))]

poly_encode_10bit(p) ==
  [n \in 0..319 |->
     LET c == Compress10(p, n \div 5)
     IN CASE n % 5 = 0 -> U8(BitAnd(c[0], 255))
          [] n % 5 = 1 -> U8(BitOr(BitAnd(Shr(c[0], 8), 3), Shl(BitAnd(c[1], 63), 2)))
          [] n % 5 = 2 -> U8(BitOr(BitAnd(Shr(c[1], 6), 15), Shl(BitAnd(c[2], 15), 4)))
          [] n % 5 = 3 -> U8(BitOr(BitAnd(Shr(c[2], 4), 63), Shl(BitAnd(c[3], 3), 6)))
          [] OTHER -> U8(BitAnd(Shr(c[3], 2), 255))]

\* the compressed coefficient x of poly_encode_4bit
Compress4(x) == U16(Shr(x, 8) + BitAnd(Shr(x, 7), 1))

poly_encode_4bit(p) ==
  [i \in 0..127 |-> U8(BitOr(Compress4(p[2 * i]), Shl(Compress4(p[2 * i + 1]), 4)))]

\* the compressed coefficient x of poly_encode_1bit: (x > 1664) & 1
Compress1(x) == IF x > 1664 THEN 1 ELSE 0

poly_encode_1bit(p) ==
  [i \in 0..31 |->
     LET F(acc, j) == BitOr(acc, Shl(Compress1(p[8 * i + j]), j))
     IN U8(Iter(F, 0, 0, 8))]

poly_decode(b) ==
  [c \in 0..255 |->
     LET i == c \div 2
         b0 == b[3 * i]
         b1 == b[3 * i + 1]
         b2 == b[3 * i + 2]
     IN IF c % 2 = 0
        THEN U16(BitOr(b0, Shl(BitAnd(b1, 15), 4)) % Q)
        ELSE U16(BitOr(Shr(BitAnd(b1, 240), 4), Shl(b2, 4)) % Q)]

poly_decode_1bit(b) ==
  [i \in 0..255 |-> U16(1665 * BitAnd(Shr(b[i \div 8], i % 8), 1))]

poly_decode_10bit(b) ==
  [c \in 0..255 |->
     LET i == c \div 4
         b0 == b[5 * i]
         b1 == b[5 * i + 1]
         b2 == b[5 * i + 2]
         b3 == b[5 * i + 3]
         b4 == b[5 * i + 4]
     IN CASE c % 4 = 0 -> U16(3 * BitOr(b0, Shl(BitAnd(b1, 3), 8)))
          [] c % 4 = 1 -> U16(3 * BitOr(Shr(b1, 2), Shl(BitAnd(b2, 15), 6)))
          [] c % 4 = 2 -> U16(3 * BitOr(Shr(b2, 4), Shl(BitAnd(b3, 63), 4)))
          [] OTHER -> U16(3 * BitOr(Shr(b3, 6), Shl(b4, 2)))]

poly_decode_4bit(b) ==
  [c \in 0..255 |->
     LET b0 == b[c \div 2]
     IN IF c % 2 = 0
        THEN U16(208 * Shl(BitAnd(b0, 15), 8))
        ELSE U16(208 * Shl(BitAnd(b0, 240), 4))]

(***************************************************************************)
(* Matrix and vector operations (DEFINE_MAT_VEC_OPS(2)).                   *)
(***************************************************************************)
\* memset(p, 0, 8): sizeof applied to a size_t expression is 8, so the
\* first four uint16_t coefficients are cleared
MemsetSizeT(p) == [c \in 0..255 |-> IF c < 4 THEN 0 ELSE p[c]]

mat2_mul(out, mat, vec) ==
  LET out0 == [i \in 0..(PKE512_K - 1) |-> IF i = 0 THEN MemsetSizeT(out[0]) ELSE out[i]]
      Row(o, y) ==
        LET F(acc, x) ==
              [i \in 0..(PKE512_K - 1) |->
                 IF i = y THEN poly_add(acc[y], poly_mul(mat[PKE512_K * y + x], vec[x]))
                 ELSE acc[i]]
        IN Iter(F, o, 0, PKE512_K)
  IN Iter(Row, out0, 0, PKE512_K)

vec2_add(a, b) == [i \in 0..(PKE512_K - 1) |-> poly_add(a[i], b[i])]

\* pke512_decrypt's loop: for (i < K) su += s[i] * u[i]
vec2_mul_acc(su, s, u) ==
  LET F(acc, i) == poly_add(acc, poly_mul(s[i], u[i]))
  IN Iter(F, su, 0, PKE512_K)

vec2_mul(c, a, b) ==
  LET F(acc, i) == poly_add(acc, poly_mul(a[i], b[i]))
  IN Iter(F, MemsetSizeT(c), 0, PKE512_K)

(***************************************************************************)
(* Constant-time helpers.                                                  *)
(***************************************************************************)
\* ct_diff with the opposite sense: TRUE when a and b differ
ct_diff_differ(a, b, len) ==
  LET F(r, i) == U8(BitOr(r, BitXor(a[i], b[i])))
  IN Iter(F, 0, 0, len) # 0

ct_diff(a, b, len) ==
  LET F(r, i) == U8(BitOr(r, BitXor(a[i], b[i])))
  IN Iter(F, 0, 0, len) = 0

\* a[i] and b[i] are bytes, so of ~mask only the low byte matters
ct_copy(sel, a, b) ==
  LET mask == IF sel THEN 255 ELSE 0
  IN [i \in 0..31 |-> U8(BitXor(BitAnd(a[i], mask), BitAnd(b[i], 255 - mask)))]

\* The control-flow steps of ct_diff, each with the number of times it is
\* taken: the loop body once per i < len (the loop has no exit but i = len),
\* then the return.
ct_diff_steps(a, b, len) ==
  LET F(n, i) == n + 1
  IN << <<"ct_diff: r |= a[i] ^ b[i]", Iter(F, 0, 0, len)>>,
        <<"ct_diff: return r == 0", 1>> >>

\* The control-flow steps of ct_copy: the operand of sel ? 0xff : 0x00 that
\* is evaluated, then the loop body once per i < 32.
ct_copy_steps(sel) ==
  LET F(n, i) == n + 1
  IN << <<IF sel THEN "ct_copy: mask = 0xff" ELSE "ct_copy: mask = 0x00", 1>>,
        <<"ct_copy: c[i] = (a[i] & mask) ^ (b[i] & ~mask)", Iter(F, 0, 0, 32)>> >>

(***************************************************************************)
(* K-PKE.  A function is the fold of its statements over the record of its *)
(* parameters and locals (locals start as the code initialises them, to    *)
(* zero); the record it leaves is the function's result.                   *)
(***************************************************************************)
ZeroVec(n) == [i \in 0..(n - 1) |-> ZeroPoly]

\* for (i < K) poly_encode(out + stride * i, v + i)
EncodeVec(out, stride, v) ==
  LET F(o, i) == MemCpy(o, stride * i, poly_encode(v[i]), 384)
  IN Iter(F, out, 0, PKE512_K)

\* for (i < K) poly_decode(v + i, buf + stride * i)
DecodeVec(buf, stride) ==
  [i \in 0..(PKE512_K - 1) |-> poly_decode(Slice(buf, stride * i, 384))]

\* EncodeU with the blocks of u two bytes apart
EncodeU_stride322(ct, u) ==
  LET F(o, i) == MemCpy(o, 322 * i, poly_encode_10bit(u[i]), 320)
  IN Iter(F, ct, 0, PKE512_K)

\* for (i < K) poly_encode_10bit(ct + 320 * i, u + i)
EncodeU(ct, u) ==
  LET F(o, i) == MemCpy(o, 320 * i, poly_encode_10bit(u[i]), 320)
  IN Iter(F, ct, 0, PKE512_K)

\* for (i < K) poly_decode_10bit(u + i, ct + 32 * DU * i)
DecodeU(ct) ==
  [i \in 0..(PKE512_K - 1) |->
     poly_decode_10bit(Slice(ct, 32 * PKE512_DU * i, 32 * PKE512_DU))]

\* pke512_keygen_step that samples the matrix with i and j exchanged
pke512_keygen_step_transposed(st, n) ==
  CASE n = 0 -> [st EXCEPT !.rs = sha3_512(st.seed, 32)]
    [] n = 1 -> [st EXCEPT !.smp = [c \in 0..(PKE512_K * PKE512_K - 1) |->
                   poly_sample_ntt_run(st.a[c], st.rs, c % PKE512_K, c \div PKE512_K)]]
    [] n = 2 -> [st EXCEPT !.a = [c \in 0..(PKE512_K * PKE512_K - 1) |-> st.smp[c].a]]
    [] n = 3 -> [st EXCEPT !.se = [i \in 0..(2 * PKE512_K - 1) |->
                   poly_ntt(poly_sample_cbd_eta3(Slice(st.rs, 32, 32), i))]]
    [] n = 4 -> [st EXCEPT !.t = mat2_mul(st.t, st.a, st.se)]
    [] n = 5 -> [st EXCEPT !.t = vec2_add(st.t, [i \in 0..(PKE512_K - 1) |->
                                                    st.se[PKE512_K + i]])]
    [] n = 6 -> [st EXCEPT !.ek = EncodeVec(st.ek, 386, st.t)]
    [] n = 7 -> [st EXCEPT !.ek = MemCpy(st.ek, PKE512_K * 384, st.rs, 32)]
    [] n = 8 -> [st EXCEPT !.dk = EncodeVec(st.dk, 386, st.se)]

pke512_keygen_step(st, n) ==
  CASE n = 0 -> [st EXCEPT !.rs = sha3_512(st.seed, 32)]
    [] n = 1 -> [st EXCEPT !.smp = [c \in 0..(PKE512_K * PKE512_K - 1) |->
                   poly_sample_ntt_run(st.a[c], st.rs, c \div PKE512_K, c % PKE512_K)]]
    [] n = 2 -> [st EXCEPT !.a = [c \in 0..(PKE512_K * PKE512_K - 1) |-> st.smp[c].a]]
    [] n = 3 -> [st EXCEPT !.se = [i \in 0..(2 * PKE512_K - 1) |->
                   poly_ntt(poly_sample_cbd_eta3(Slice(st.rs, 32, 32), i))]]
    [] n = 4 -> [st EXCEPT !.t = mat2_mul(st.t, st.a, st.se)]
    [] n = 5 -> [st EXCEPT !.t = vec2_add(st.t, [i \in 0..(PKE512_K - 1) |->
                                                    st.se[PKE512_K + i]])]
    [] n = 6 -> [st EXCEPT !.ek = EncodeVec(st.ek, 386, st.t)]
    [] n = 7 -> [st EXCEPT !.ek = MemCpy(st.ek, PKE512_K * 384, st.rs, 32)]
    [] n = 8 -> [st EXCEPT !.dk = EncodeVec(st.dk, 386, st.se)]

\* ek and dk are the caller's buffers as they are before the call
pke512_keygen(ek, dk, seed) ==
  Iter(pke512_keygen_step,
       [ek |-> ek, dk |-> dk, seed |-> seed, rs |-> ZeroBytes(64),
        a |-> ZeroVec(PKE512_K * PKE512_K), smp |-> << >>,
        se |-> ZeroVec(2 * PKE512_K), t |-> ZeroVec(PKE512_K)],
       0, 9)

\* pke512_encrypt_step that samples e2 with the counter of e1[0]
pke512_encrypt_step_e2_counter_k(st, n) ==
  CASE n = 0 -> [st EXCEPT !.t = DecodeVec(st.ek, 384)]
    [] n = 1 -> [st EXCEPT !.smp = [c \in 0..(PKE512_K * PKE512_K - 1) |->
                   poly_sample_ntt_run(st.a[c], Slice(st.ek, 384 * PKE512_K, 32),
                                       c % PKE512_K, c \div PKE512_K)]]
    [] n = 2 -> [st EXCEPT !.a = [c \in 0..(PKE512_K * PKE512_K - 1) |-> st.smp[c].a]]
    [] n = 3 -> [st EXCEPT !.r = [i \in 0..(PKE512_K - 1) |->
                   poly_ntt(poly_sample_cbd_eta3(st.enc_rand, i))]]
    [] n = 4 -> [st EXCEPT !.e1 = [i \in 0..(PKE512_K - 1) |->
                   poly_sample_cbd_eta2(st.enc_rand, PKE512_K + i)]]
    [] n = 5 -> [st EXCEPT !.e2 = poly_sample_cbd_eta2(st.enc_rand, PKE512_K)]
    [] n = 6 -> [st EXCEPT !.u = mat2_mul(st.u, st.a, st.r)]
    [] n = 7 -> [st EXCEPT !.u = [i \in 0..(PKE512_K - 1) |-> poly_inv_ntt(st.u[i])]]
    [] n = 8 -> [st EXCEPT !.u = vec2_add(st.u, st.e1)]
    [] n = 9 -> [st EXCEPT !.ct = EncodeU(st.ct, st.u)]
    [] n = 10 -> [st EXCEPT !.mu = poly_decode_1bit(st.m)]
    [] n = 11 -> [st EXCEPT !.v = vec2_mul(st.v, st.t, st.r)]
    [] n = 12 -> [st EXCEPT !.v = poly_inv_ntt(st.v)]
    [] n = 13 -> [st EXCEPT !.v = poly_add(st.v, st.e2)]
    [] n = 14 -> [st EXCEPT !.v = poly_add(st.v, st.mu)]
    [] n = 15 -> [st EXCEPT !.ct = MemCpy(st.ct, 320 * PKE512_K,
                                           poly_encode_4bit(st.v), 128)]

pke512_encrypt_step(st, n) ==
  CASE n = 0 -> [st EXCEPT !.t = DecodeVec(st.ek, 384)]
    [] n = 1 -> [st EXCEPT !.smp = [c \in 0..(PKE512_K * PKE512_K - 1) |->
                   poly_sample_ntt_run(st.a[c], Slice(st.ek, 384 * PKE512_K, 32),
                                       c % PKE512_K, c \div PKE512_K)]]
    [] n = 2 -> [st EXCEPT !.a = [c \in 0..(PKE512_K * PKE512_K - 1) |-> st.smp[c].a]]
    [] n = 3 -> [st EXCEPT !.r = [i \in 0..(PKE512_K - 1) |->
                   poly_ntt(poly_sample_cbd_eta3(st.enc_rand, i))]]
    [] n = 4 -> [st EXCEPT !.e1 = [i \in 0..(PKE512_K - 1) |->
                   poly_sample_cbd_eta2(st.enc_rand, PKE512_K + i)]]
    [] n = 5 -> [st EXCEPT !.e2 = poly_sample_cbd_eta2(st.enc_rand, 2 * PKE512_K)]
    [] n = 6 -> [st EXCEPT !.u = mat2_mul(st.u, st.a, st.r)]
    [] n = 7 -> [st EXCEPT !.u = [i \in 0..(PKE512_K - 1) |-> poly_inv_ntt(st.u[i])]]
    [] n = 8 -> [st EXCEPT !.u = vec2_add(st.u, st.e1)]
    [] n = 9 -> [st EXCEPT !.ct = EncodeU(st.ct, st.u)]
    [] n = 10 -> [st EXCEPT !.mu = poly_decode_1bit(st.m)]
    [] n = 11 -> [st EXCEPT !.v = vec2_mul(st.v, st.t, st.r)]
    [] n = 12 -> [st EXCEPT !.v = poly_inv_ntt(st.v)]
    [] n = 13 -> [st EXCEPT !.v = poly_add(st.v, st.e2)]
    [] n = 14 -> [st EXCEPT !.v = poly_add(st.v, st.mu)]
    [] n = 15 -> [st EXCEPT !.ct = MemCpy(st.ct, 320 * PKE512_K,
                                           poly_encode_4bit(st.v), 128)]

\* ct is the caller's buffer as it is before the call; mu is written in
\* full before it is read, so what it starts as does not matter
pke512_encrypt(ct, ek, m, enc_rand) ==
  Iter(pke512_encrypt_step,
       [ct |-> ct, ek |-> ek, m |-> m, enc_rand |-> enc_rand,
        t |-> ZeroVec(PKE512_K), a |-> ZeroVec(PKE512_K * PKE512_K), smp |-> << >>,
        r |-> ZeroVec(PKE512_K), e1 |-> ZeroVec(PKE512_K), e2 |-> ZeroPoly,
        u |-> ZeroVec(PKE512_K), mu |-> ZeroPoly, v |-> ZeroPoly],
       0, 16)

\* pke512_decrypt_step with the operands of the subtraction exchanged
pke512_decrypt_step_su_minus_v(st, n) ==
  CASE n = 0 -> [st EXCEPT !.u = DecodeU(st.ct)]
    [] n = 1 -> [st EXCEPT !.v = poly_decode_4bit(
                   Slice(st.ct, 32 * PKE512_DU * PKE512_K, 32 * PKE512_DV))]
    [] n = 2 -> [st EXCEPT !.s = DecodeVec(st.dk, 384)]
    [] n = 3 -> [st EXCEPT !.u_ntt = [i \in 0..(PKE512_K - 1) |-> poly_ntt(st.u[i])]]
    [] n = 4 -> [st EXCEPT !.su = vec2_mul_acc(st.su, st.s, st.u_ntt)]
    [] n = 5 -> [st EXCEPT !.su = poly_inv_ntt(st.su)]
    [] n = 6 -> [st EXCEPT !.w = poly_sub(st.su, st.v)]
    [] n = 7 -> [st EXCEPT !.m = MemCpy(st.m, 0, poly_encode_1bit(st.w), 32)]

\* u keeps the decoded u; u_ntt is u after the in-place poly_ntt
pke512_decrypt_step(st, n) ==
  CASE n = 0 -> [st EXCEPT !.u = DecodeU(st.ct)]
    [] n = 1 -> [st EXCEPT !.v = poly_decode_4bit(
                   Slice(st.ct, 32 * PKE512_DU * PKE512_K, 32 * PKE512_DV))]
    [] n = 2 -> [st EXCEPT !.s = DecodeVec(st.dk, 384)]
    [] n = 3 -> [st EXCEPT !.u_ntt = [i \in 0..(PKE512_K - 1) |-> poly_ntt(st.u[i])]]
    [] n = 4 -> [st EXCEPT !.su = vec2_mul_acc(st.su, st.s, st.u_ntt)]
    [] n = 5 -> [st EXCEPT !.su = poly_inv_ntt(st.su)]
    [] n = 6 -> [st EXCEPT !.w = poly_sub(st.v, st.su)]
    [] n = 7 -> [st EXCEPT !.m = MemCpy(st.m, 0, poly_encode_1bit(st.w), 32)]

\* m is the caller's buffer as it is before the call
pke512_decrypt(m, dk, ct) ==
  Iter(pke512_decrypt_step,
       [m |-> m, dk |-> dk, ct |-> ct, u |-> ZeroVec(PKE512_K), v |-> ZeroPoly,
        s |-> ZeroVec(PKE512_K), u_ntt |-> ZeroVec(PKE512_K), su |-> ZeroPoly,
        w |-> ZeroPoly],
       0, 8)

(***************************************************************************)
(* ML-KEM-512.                                                             *)
(***************************************************************************)
\* fips203_kem512_keygen_step with z taken from the second half of the seed
fips203_kem512_keygen_step_z_from_d(st, n) ==
  CASE n = 0 -> [st EXCEPT !.pke = pke512_keygen(st.ek, st.dk, Slice(st.seed, 32, 32))]
    [] n = 1 -> [st EXCEPT !.ek = st.pke.ek, !.dk = st.pke.dk]
    [] n = 2 -> [st EXCEPT !.dk = MemCpy(st.dk, PKE512_DK_SIZE, st.ek, PKE512_EK_SIZE)]
    [] n = 3 -> [st EXCEPT !.dk = MemCpy(st.dk, PKE512_DK_SIZE + PKE512_EK_SIZE,
                                           sha3_256(st.ek, PKE512_EK_SIZE), 32)]
    [] n = 4 -> [st EXCEPT !.dk = MemCpy(st.dk, PKE512_DK_SIZE + PKE512_EK_SIZE + 32,
                                           Slice(st.seed, 32, 32), 32)]

fips203_kem512_keygen_step(st, n) ==
  CASE n = 0 -> [st EXCEPT !.pke = pke512_keygen(st.ek, st.dk, Slice(st.seed, 32, 32))]
    [] n = 1 -> [st EXCEPT !.ek = st.pke.ek, !.dk = st.pke.dk]
    [] n = 2 -> [st EXCEPT !.dk = MemCpy(st.dk, PKE512_DK_SIZE, st.ek, PKE512_EK_SIZE)]
    [] n = 3 -> [st EXCEPT !.dk = MemCpy(st.dk, PKE512_DK_SIZE + PKE512_EK_SIZE,
                                           sha3_256(st.ek, PKE512_EK_SIZE), 32)]
    [] n = 4 -> [st EXCEPT !.dk = MemCpy(st.dk, PKE512_DK_SIZE + PKE512_EK_SIZE + 32,
                                           Slice(st.seed, 0, 32), 32)]

NoCall == [none |-> TRUE]

\* the parameters and locals of fips203_kem512_keygen on entry
fips203_kem512_keygen_locals(ek, dk, seed) ==
  [ek |-> ek, dk |-> dk, seed |-> seed, pke |-> NoCall]

fips203_kem512_keygen(ek, dk, seed) ==
  Iter(fips203_kem512_keygen_step, fips203_kem512_keygen_locals(ek, dk, seed), 0, 5)

\* fips203_kem512_encaps_step with the halves of kr exchanged
fips203_kem512_encaps_step_swapped(st, n) ==
  CASE n = 0 -> [st EXCEPT !.data = MemCpy(st.data, 0, st.seed, 32)]
    [] n = 1 -> [st EXCEPT !.data = MemCpy(st.data, 32,
                                             sha3_256(st.ek, PKE512_EK_SIZE), 32)]
    [] n = 2 -> [st EXCEPT !.kr = sha3_512(st.data, 64)]
    [] n = 3 -> [st EXCEPT !.k = MemCpy(st.k, 0, Slice(st.kr, 32, 32), 32)]
    [] n = 4 -> [st EXCEPT !.pke = pke512_encrypt(st.ct, st.ek, st.seed,
                                                   Slice(st.kr, 0, 32))]
    [] n = 5 -> [st EXCEPT !.ct = st.pke.ct]

fips203_kem512_encaps_step(st, n) ==
  CASE n = 0 -> [st EXCEPT !.data = MemCpy(st.data, 0, st.seed, 32)]
    [] n = 1 -> [st EXCEPT !.data = MemCpy(st.data, 32,
                                             sha3_256(st.ek, PKE512_EK_SIZE), 32)]
    [] n = 2 -> [st EXCEPT !.kr = sha3_512(st.data, 64)]
    [] n = 3 -> [st EXCEPT !.k = MemCpy(st.k, 0, st.kr, 32)]
    [] n = 4 -> [st EXCEPT !.pke = pke512_encrypt(st.ct, st.ek, st.seed,
                                                   Slice(st.kr, 32, 32))]
    [] n = 5 -> [st EXCEPT !.ct = st.pke.ct]

\* the parameters and locals of fips203_kem512_encaps on entry
fips203_kem512_encaps_locals(k, ct, ek, seed) ==
  [k |-> k, ct |-> ct, ek |-> ek, seed |-> seed, data |-> ZeroBytes(64),
   kr |-> ZeroBytes(64), pke |-> NoCall]

fips203_kem512_encaps(k, ct, ek, seed) ==
  Iter(fips203_kem512_encaps_step, fips203_kem512_encaps_locals(k, ct, ek, seed), 0, 6)

\* z_ct without the copy of z
z_ct_without_z(zc, z, ct) == MemCpy(zc, 32, ct, PKE512_CT_SIZE)

\* zc = z || ct
z_ct(zc, z, ct) == MemCpy(MemCpy(zc, 0, z, 32), 32, ct, PKE512_CT_SIZE)

\* fips203_kem512_decaps_step that clears the caller's ct when it is done
fips203_kem512_decaps_step_wipes_ct(st, n) ==
  CASE n = 0 -> [st EXCEPT !.dk_pke = Slice(st.dk_kem, 0, PKE512_DK_SIZE),
                           !.ek_pke = Slice(st.dk_kem, 384 * PKE512_K, PKE512_EK_SIZE),
                           !.h = Slice(st.dk_kem, 2 * 384 * PKE512_K + 32, 32),
                           !.z = Slice(st.dk_kem, 2 * 384 * PKE512_K + 64, 32)]
    [] n = 1 -> [st EXCEPT !.dec = pke512_decrypt(Slice(st.mh, 0, 32), st.dk_pke, st.ct),
                           !.steps = Append(@, <<"pke512_decrypt", 1>>)]
    [] n = 2 -> [st EXCEPT !.mh = MemCpy(MemCpy(st.mh, 0, st.dec.m, 32), 32, st.h, 32),
                           !.steps = Append(@, <<"memcpy(mh + 32, h, 32)", 1>>)]
    [] n = 3 -> [st EXCEPT !.kr = sha3_512(st.mh, 64),
                           !.steps = Append(@, <<"sha3_512", 1>>)]
    [] n = 4 -> [st EXCEPT !.zc = z_ct(st.zc, st.z, st.ct),
                           !.steps = @ \o << <<"memcpy(zc, z, 32)", 1>>,
                                             <<"memcpy(zc + 32, ct, PKE512_CT_SIZE)", 1>> >>]
    [] n = 5 -> [st EXCEPT !.k_rej = shake256(st.zc, 32 + PKE512_CT_SIZE),
                           !.steps = Append(@, <<"shake256", 1>>)]
    [] n = 6 -> [st EXCEPT !.enc = pke512_encrypt(st.ct2, st.ek_pke, st.mh,
                                                   Slice(st.kr, 32, 32))]
    [] n = 7 -> [st EXCEPT !.ct2 = st.enc.ct,
                           !.steps = Append(@, <<"pke512_encrypt", 1>>)]
    [] n = 8 -> [st EXCEPT !.diff = ct_diff(st.ct, st.ct2, PKE512_CT_SIZE),
                           !.steps = @ \o ct_diff_steps(st.ct, st.ct2, PKE512_CT_SIZE)]
    [] n = 9 -> [st EXCEPT !.k = ct_copy(st.diff, st.kr, st.k_rej),
                           !.ct = ZeroBytes(PKE512_CT_SIZE),
                           !.steps = @ \o ct_copy_steps(st.diff)]

fips203_kem512_decaps_step(st, n) ==
  CASE n = 0 -> [st EXCEPT !.dk_pke = Slice(st.dk_kem, 0, PKE512_DK_SIZE),
                           !.ek_pke = Slice(st.dk_kem, 384 * PKE512_K, PKE512_EK_SIZE),
                           !.h = Slice(st.dk_kem, 2 * 384 * PKE512_K + 32, 32),
                           !.z = Slice(st.dk_kem, 2 * 384 * PKE512_K + 64, 32)]
    [] n = 1 -> [st EXCEPT !.dec = pke512_decrypt(Slice(st.mh, 0, 32), st.dk_pke, st.ct),
                           !.steps = Append(@, <<"pke512_decrypt", 1>>)]
    [] n = 2 -> [st EXCEPT !.mh = MemCpy(MemCpy(st.mh, 0, st.dec.m, 32), 32, st.h, 32),
                           !.steps = Append(@, <<"memcpy(mh + 32, h, 32)", 1>>)]
    [] n = 3 -> [st EXCEPT !.kr = sha3_512(st.mh, 64),
                           !.steps = Append(@, <<"sha3_512", 1>>)]
    [] n = 4 -> [st EXCEPT !.zc = z_ct(st.zc, st.z, st.ct),
                           !.steps = @ \o << <<"memcpy(zc, z, 32)", 1>>,
                                             <<"memcpy(zc + 32, ct, PKE512_CT_SIZE)", 1>> >>]
    [] n = 5 -> [st EXCEPT !.k_rej = shake256(st.zc, 32 + PKE512_CT_SIZE),
                           !.steps = Append(@, <<"shake256", 1>>)]
    [] n = 6 -> [st EXCEPT !.enc = pke512_encrypt(st.ct2, st.ek_pke, st.mh,
                                                   Slice(st.kr, 32, 32))]
    [] n = 7 -> [st EXCEPT !.ct2 = st.enc.ct,
                           !.steps = Append(@, <<"pke512_encrypt", 1>>)]
    [] n = 8 -> [st EXCEPT !.diff = ct_diff(st.ct, st.ct2, PKE512_CT_SIZE),
                           !.steps = @ \o ct_diff_steps(st.ct, st.ct2, PKE512_CT_SIZE)]
    [] n = 9 -> [st EXCEPT !.k = ct_copy(st.diff, st.kr, st.k_rej),
                           !.steps = @ \o ct_copy_steps(st.diff)]

\* the parameters and locals of fips203_kem512_decaps on entry
fips203_kem512_decaps_locals(k, ct, dk_kem) ==
  [k |-> k, ct |-> ct, dk_kem |-> dk_kem, dk_pke |-> << >>, ek_pke |-> << >>,
   h |-> << >>, z |-> << >>, mh |-> ZeroBytes(64), dec |-> NoCall,
   kr |-> ZeroBytes(64), zc |-> ZeroBytes(32 + PKE512_CT_SIZE),
   k_rej |-> ZeroBytes(32), enc |-> NoCall, ct2 |-> ZeroBytes(PKE512_CT_SIZE),
   diff |-> FALSE, steps |-> << >>]

fips203_kem512_decaps(k, ct, dk_kem) ==
  Iter(fips203_kem512_decaps_step, fips203_kem512_decaps_locals(k, ct, dk_kem), 0, 10)

(***************************************************************************)
(* The callers.  A session: the receiver makes a key pair (Keygen) or      *)
(* supplies key material of its own (ImportKey), the sender encapsulates   *)
(* to ek (Encaps), the ciphertext may be changed in flight (Tamper), the   *)
(* receiver decapsulates (Decaps); the receiver may then replace its key   *)
(* once and decapsulate the same ciphertext again.                         *)
(***************************************************************************)
VARIABLES
  junk,      \* the byte every caller buffer holds before its first use
  ek, dk,    \* the receiver's key buffers
  ct,        \* the ciphertext buffer
  k0, k1,    \* the sender's and the receiver's shared-key buffers
  seed,      \* the last keygen seed
  m,         \* the last encapsulation seed
  pc,        \* "idle", "keyed", "ready", "done"
  origin,    \* "none", "keygen", "import": where the current key comes from
  tampered,  \* the ciphertext was changed after encapsulation
  rekeyed,   \* the key was replaced after a decapsulation
  kg, en, de,\* locals of the last keygen, encaps and decaps call
  log,       \* one entry per decaps call: dk, ct, the key returned, rejected?
  cpc,       \* codec exerciser: "off", "start", "encoded", "decoded", or
             \* "bytes", "parsed" when a decoder is given bytes directly
  cd,        \* codec width in bits: 12, 10, 4 or 1
  cp, cb, cq,\* polynomial, its encoding, the decoding of the encoding
  tst,       \* arithmetic tests: the operands and locals of the running test
  th,        \* concurrent calls: per thread, the call and its locals so far
  lut        \* concurrent calls: the tables NTT_LUT and MUL_LUT in memory

kemvars == <<junk, ek, dk, ct, k0, k1, seed, m, pc, origin, tampered, rekeyed,
             kg, en, de, log>>

codecvars == <<cpc, cd, cp, cb, cq>>

polyvars == <<tst>>

concvars == <<th, lut>>

vars == <<kemvars, codecvars, polyvars, concvars>>

Junk(n, b) == [i \in 0..(n - 1) |-> b]

\* seed 0 is all zero; the others are byte patterns
SeedOf(id) == [i \in 0..63 |-> (id * (17 + 3 * i)) % 256]

\* encapsulation seed id: the byte id followed by zeros
MsgOf(id) == [i \in 0..31 |-> IF i = 0 THEN id ELSE 0]

PolyOf(id) == [i \in 0..255 |-> (256 * id + i) % Q]

\* key material a caller can hand to encaps and decaps without keygen:
\* t-hat = 0, rho = 0, s-hat = 0, h = SHA3-256(ek), z = the z of seed 1
ImportedEk == ZeroBytes(FIPS203_KEM512_EK_SIZE)

ImportedDk ==
  MemCpy(MemCpy(MemCpy(ZeroBytes(FIPS203_KEM512_DK_SIZE), PKE512_DK_SIZE,
                       ImportedEk, PKE512_EK_SIZE),
                PKE512_DK_SIZE + PKE512_EK_SIZE,
                sha3_256(ImportedEk, PKE512_EK_SIZE), 32),
         PKE512_DK_SIZE + PKE512_EK_SIZE + 32, Slice(SeedOf(1), 0, 32), 32)

KemInit(b) ==
  /\ junk = b
  /\ ek = Junk(FIPS203_KEM512_EK_SIZE, b)
  /\ dk = Junk(FIPS203_KEM512_DK_SIZE, b)
  /\ ct = Junk(FIPS203_KEM512_CT_SIZE, b)
  /\ k0 = Junk(32, b)
  /\ k1 = Junk(32, b)
  /\ seed = Junk(64, b)
  /\ m = Junk(32, b)
  /\ pc = "idle"
  /\ origin = "none"
  /\ tampered = FALSE
  /\ rekeyed = FALSE
  /\ kg = NoCall
  /\ en = NoCall
  /\ de = NoCall
  /\ log = << >>

CodecOff ==
  /\ cpc = "off"
  /\ cd = 0
  /\ cp = ZeroPoly
  /\ cb = << >>
  /\ cq = ZeroPoly

\* no arithmetic test is running
PolyOff == tst = [op |-> "off"]

\* no concurrent call is running
ConcOff == th = << >> /\ lut = [ntt |-> NTT_LUT, mul |-> MUL_LUT]

Init == (\E b \in {0, 170} : KemInit(b)) /\ CodecOff /\ PolyOff /\ ConcOff

Keygen(id) ==
  /\ pc = "idle"
  /\ kg' = fips203_kem512_keygen(ek, dk, SeedOf(id))
  /\ ek' = kg'.ek
  /\ dk' = kg'.dk
  /\ seed' = SeedOf(id)
  /\ origin' = "keygen"
  /\ pc' = "keyed"
  /\ UNCHANGED <<junk, ct, k0, k1, m, tampered, rekeyed, en, de, log, codecvars, polyvars, concvars>>

ImportKey ==
  /\ pc = "idle" \/ (pc = "done" /\ origin = "keygen" /\ ~rekeyed)
  /\ ek' = ImportedEk
  /\ dk' = ImportedDk
  /\ origin' = "import"
  /\ rekeyed' = (pc = "done")
  /\ pc' = IF pc = "idle" THEN "keyed" ELSE "ready"
  /\ UNCHANGED <<junk, ct, k0, k1, seed, m, tampered, kg, en, de, log, codecvars, polyvars, concvars>>

Encaps(id) ==
  /\ pc = "keyed"
  /\ en' = fips203_kem512_encaps(k0, ct, ek, MsgOf(id))
  /\ k0' = en'.k
  /\ ct' = en'.ct
  /\ m' = MsgOf(id)
  /\ pc' = "ready"
  /\ UNCHANGED <<junk, ek, dk, k1, seed, origin, tampered, rekeyed, kg, de, log,
                 codecvars, polyvars, concvars>>

\* the lowest bit of one ciphertext byte is flipped
Tamper(pos) ==
  /\ pc = "ready"
  /\ ~tampered
  /\ ~rekeyed
  /\ ct' = [ct EXCEPT ![pos] = BitXor(ct[pos], 1)]
  /\ tampered' = TRUE
  /\ UNCHANGED <<junk, ek, dk, k0, k1, seed, m, pc, origin, rekeyed, kg, en, de, log,
                 codecvars, polyvars, concvars>>

Decaps ==
  /\ pc = "ready"
  /\ de' = fips203_kem512_decaps(k1, ct, dk)
  /\ k1' = de'.k
  /\ log' = Append(log, [dk |-> dk, ct |-> ct, k |-> k1', rej |-> de'.ct2 # ct])
  /\ pc' = "done"
  /\ UNCHANGED <<junk, ek, dk, ct, k0, seed, m, origin, tampered, rekeyed, kg, en,
                 codecvars, polyvars, concvars>>

Next ==
  \/ \E id \in 0..(NumSeeds - 1) : Keygen(id)
  \/ ImportKey
  \/ \E id \in 0..(NumMsgs - 1) : Encaps(id)
  \/ \E pos \in {0, FIPS203_KEM512_CT_SIZE - 1} : Tamper(pos)
  \/ Decaps

Spec == Init /\ [][Next]_vars

(***************************************************************************)
(* The codec exerciser: a polynomial with coefficients in [0, q) is        *)
(* encoded at one of the four widths and the encoding is decoded again.    *)
(* The KEM buffers stay as they start.                                     *)
(***************************************************************************)
\* an input of the decoders: 384 bytes, of which the decoder of width d
\* takes the first 32 d (id = 0: every byte 0xFF, every field all ones)
RawOf(id) == [i \in 0..383 |-> (255 + id * (37 * i + 11)) % 256]

InitCodec ==
  /\ KemInit(0)
  /\ \/ /\ cpc = "start"
        /\ cd = 0
        /\ cp \in {PolyOf(id) : id \in 0..(NumPolys - 1)}
        /\ cb = << >>
     \/ /\ cpc = "bytes"
        /\ cd \in {1, 4, 10, 12}
        /\ cp = ZeroPoly
        /\ cb \in {Slice(RawOf(id), 0, 32 * cd) : id \in 0..(NumRaw - 1)}
  /\ cq = ZeroPoly
  /\ PolyOff
  /\ ConcOff

Encode(d) ==
  /\ cpc = "start"
  /\ cd' = d
  /\ cb' = CASE d = 12 -> poly_encode(cp)
             [] d = 10 -> poly_encode_10bit(cp)
             [] d = 4 -> poly_encode_4bit(cp)
             [] d = 1 -> poly_encode_1bit(cp)
  /\ cpc' = "encoded"
  /\ UNCHANGED <<cp, cq, kemvars, polyvars, concvars>>

Decode ==
  /\ cpc = "encoded"
  /\ cq' = CASE cd = 12 -> poly_decode(cb)
             [] cd = 10 -> poly_decode_10bit(cb)
             [] cd = 4 -> poly_decode_4bit(cb)
             [] cd = 1 -> poly_decode_1bit(cb)
  /\ cpc' = "decoded"
  /\ UNCHANGED <<cd, cp, cb, kemvars, polyvars, concvars>>

\* a decoder on bytes that no encoder wrote
DecodeRaw ==
  /\ cpc = "bytes"
  /\ cq' = CASE cd = 12 -> poly_decode(cb)
             [] cd = 10 -> poly_decode_10bit(cb)
             [] cd = 4 -> poly_decode_4bit(cb)
             [] cd = 1 -> poly_decode_1bit(cb)
  /\ cpc' = "parsed"
  /\ UNCHANGED <<cd, cp, cb, kemvars, polyvars, concvars>>

NextCodec ==
  \/ \E d \in {1, 4, 10, 12} : Encode(d)
  \/ Decode
  \/ DecodeRaw

SpecCodec == InitCodec /\ [][NextCodec]_vars

(***************************************************************************)
(* The arithmetic tests of src/fips203.c (test_poly_ntt_roundtrip,         *)
(* test_poly_add, test_poly_sub, test_poly_mul) on operands with           *)
(* coefficients in [0, q), and poly_mul applied to operands directly.      *)
(* tst.A and tst.B are the operands of the test case, tst.a, tst.b and     *)
(* tst.got the locals of the test, tst.blocks the butterfly blocks of the  *)
(* test's last poly_ntt(&got) or poly_inv_ntt(&got).  The sampling script  *)
(* src/scripts/sample-cbd/main.c is a case of its own: tst.eta and         *)
(* tst.byte are its arguments, tst.seed the PRF seed, tst.buf the bytes    *)
(* squeezed and tst.got the coefficients sampled.  mat2_mul and vec2_mul   *)
(* are called on an output buffer that holds zeros, as at their call sites *)
(* in pke512_keygen and pke512_encrypt, or earlier results: tst.A is the   *)
(* matrix or first vector, tst.B the second vector, tst.got the output.    *)
(***************************************************************************)
\* the monomial x^i
Monomial(i) == [c \in 0..255 |-> IF c = i THEN 1 ELSE 0]

\* the polynomial with every coefficient v
ConstPoly(v) == [c \in 0..255 |-> v]

\* exponents of the monomials multiplied
MonomialExps == {0, 1, 2, 3, 255}

\* coefficient values poly_mul is applied to directly
FieldValues == {1, 1664, Q - 1}

\* poly_t a = TESTS[i].a, b = TESTS[i].b, got = { 0 }
TestCase(op, A, B) ==
  [op |-> op, pc |-> "start", A |-> A, B |-> B, a |-> A, b |-> B,
   got |-> IF op \in {"mul", "mul_direct"} THEN ZeroPoly ELSE A, blocks |-> << >>,
   eta |-> 0, byte |-> 0, seed |-> << >>, buf |-> << >>]

\* bytes the sampling script is run with
CbdBytes == 0..4

\* PRF seeds sampled from: the script's all-zero seed and a sigma-like one
CbdSeeds == {ZeroBytes(32), Slice(SeedOf(1), 0, 32)}

\* const int eta = atoi(argv[1]), byte = atoi(argv[2]); uint16_t cs[256] = { 0 }
CbdCase(eta, prf_src, b) ==
  [TestCase("cbd", ZeroPoly, ZeroPoly) EXCEPT !.eta = eta, !.byte = b, !.seed = prf_src]

\* what the output buffer of a module product holds before the call
PriorPolys == {ZeroPoly, PolyOf(3)}

\* operands of the module products
ProductOperands == {1, 2}

\* out / c = prior; mat2_mul(out, A, B) or vec2_mul(&c, A, B)
ProductCase(op, prior, A, B) == [TestCase(op, A, B) EXCEPT !.got = prior]

ProductCases ==
  {ProductCase("mat2_mul", [i \in 0..(PKE512_K - 1) |-> prior],
               [c \in 0..(PKE512_K * PKE512_K - 1) |-> PolyOf(id + c)],
               [i \in 0..(PKE512_K - 1) |-> PolyOf(id + 7 + i)]) :
     prior \in PriorPolys, id \in ProductOperands}
    \cup {ProductCase("vec2_mul", prior,
                      [i \in 0..(PKE512_K - 1) |-> PolyOf(id + i)],
                      [i \in 0..(PKE512_K - 1) |-> PolyOf(id + 7 + i)]) :
            prior \in PriorPolys, id \in ProductOperands}

TestCases ==
  {TestCase("ntt", PolyOf(id), ZeroPoly) : id \in 0..(NumPolys - 1)}
    \cup {TestCase(op, PolyOf(id), PolyOf(NumPolys - 1 - id)) :
             op \in {"add", "sub"}, id \in 0..(NumPolys - 1)}
    \cup {TestCase("mul", Monomial(i), Monomial(j)) :
             i \in MonomialExps, j \in MonomialExps}
    \cup {TestCase("mul_direct", ConstPoly(v), ConstPoly(w)) :
             v \in FieldValues, w \in FieldValues}
    \cup {CbdCase(eta, prf_src, b) :
             eta \in {2, 3}, prf_src \in CbdSeeds, b \in CbdBytes}
    \cup ProductCases

InitPoly ==
  /\ KemInit(0)
  /\ CodecOff
  /\ ConcOff
  /\ tst \in TestCases

\* test_poly_ntt_roundtrip: poly_ntt(&got)
TestNtt ==
  /\ tst.op = "ntt" /\ tst.pc = "start"
  /\ tst' = [tst EXCEPT !.got = poly_ntt(tst.got), !.pc = "ntt",
                         !.blocks = poly_ntt_run(tst.got).blocks]
  /\ UNCHANGED <<kemvars, codecvars, concvars>>

\* test_poly_mul: poly_ntt(&a); poly_ntt(&b)
TestNttOperands ==
  /\ tst.op = "mul" /\ tst.pc = "start"
  /\ tst' = [tst EXCEPT !.a = poly_ntt(tst.a), !.b = poly_ntt(tst.b), !.pc = "ntt"]
  /\ UNCHANGED <<kemvars, codecvars, concvars>>

\* poly_mul(&got, &a, &b)
TestMul ==
  /\ \/ tst.op = "mul" /\ tst.pc = "ntt"
     \/ tst.op = "mul_direct" /\ tst.pc = "start"
  /\ tst' = [tst EXCEPT !.got = poly_mul(tst.a, tst.b),
                         !.pc = IF tst.op = "mul" THEN "mul" ELSE "done"]
  /\ UNCHANGED <<kemvars, codecvars, concvars>>

\* poly_inv_ntt(&got)
TestInvNtt ==
  /\ \/ tst.op = "ntt" /\ tst.pc = "ntt"
     \/ tst.op = "mul" /\ tst.pc = "mul"
  /\ tst' = [tst EXCEPT !.got = poly_inv_ntt(tst.got), !.pc = "done",
                         !.blocks = poly_inv_ntt_run(tst.got).blocks]
  /\ UNCHANGED <<kemvars, codecvars, concvars>>

\* test_poly_add: poly_add(&got, &b)
TestAdd ==
  /\ tst.op = "add" /\ tst.pc = "start"
  /\ tst' = [tst EXCEPT !.got = poly_add(tst.got, tst.b), !.pc = "done"]
  /\ UNCHANGED <<kemvars, codecvars, concvars>>

\* test_poly_sub: poly_sub(&got, &b)
TestSub ==
  /\ tst.op = "sub" /\ tst.pc = "start"
  /\ tst' = [tst EXCEPT !.got = poly_sub(tst.got, tst.b), !.pc = "done"]
  /\ UNCHANGED <<kemvars, codecvars, concvars>>

\* the sampling of src/scripts/sample-cbd/main.c, which is the body of
\* poly_sample_cbd_eta ## ETA (p, seed, b)
SampleCbd ==
  /\ tst.op = "cbd" /\ tst.pc = "start"
  /\ tst' = [tst EXCEPT !.got = poly_sample_cbd_eta_run(tst.eta, tst.seed, tst.byte).p,
                         !.buf = poly_sample_cbd_eta_run(tst.eta, tst.seed, tst.byte).buf,
                         !.pc = "done"]
  /\ UNCHANGED <<kemvars, codecvars, concvars>>

\* mat2_mul(out, mat, vec)
TestMatMul ==
  /\ tst.op = "mat2_mul" /\ tst.pc = "start"
  /\ tst' = [tst EXCEPT !.got = mat2_mul(tst.got, tst.A, tst.B), !.pc = "done"]
  /\ UNCHANGED <<kemvars, codecvars, concvars>>

\* vec2_mul(&c, a, b)
TestVecMul ==
  /\ tst.op = "vec2_mul" /\ tst.pc = "start"
  /\ tst' = [tst EXCEPT !.got = vec2_mul(tst.got, tst.A, tst.B), !.pc = "done"]
  /\ UNCHANGED <<kemvars, codecvars, concvars>>

NextPoly ==
  \/ TestMatMul
  \/ TestVecMul
  \/ SampleCbd
  \/ TestNtt
  \/ TestNttOperands
  \/ TestMul
  \/ TestInvNtt
  \/ TestAdd
  \/ TestSub

SpecPoly == InitPoly /\ [][NextPoly]_vars

(***************************************************************************)
(* Concurrent calls.  Two threads, each with caller buffers of its own:    *)
(* thread 1 calls fips203_kem512_keygen, thread 2 calls                    *)
(* fips203_kem512_encaps and then fips203_kem512_decaps on what encaps     *)
(* left.  The scheduler runs one statement of one thread at a time.        *)
(* th[t].st is the frame of the thread's current call (its parameters are  *)
(* the caller's buffers as the call has written them so far), th[t].bufs   *)
(* the thread's buffers as they were when the call began, th[t].alone the  *)
(* buffers after each of the thread's calls when no other thread runs.     *)
(***************************************************************************)
CallLocals(c, bufs) ==
  CASE c = "keygen" -> fips203_kem512_keygen_locals(bufs.ek, bufs.dk, bufs.seed)
    [] c = "encaps" -> fips203_kem512_encaps_locals(bufs.k0, bufs.ct, bufs.ek, bufs.m)
    [] c = "decaps" -> fips203_kem512_decaps_locals(bufs.k1, bufs.ct, bufs.dk)

CallStep(c, st, n) ==
  CASE c = "keygen" -> fips203_kem512_keygen_step(st, n)
    [] c = "encaps" -> fips203_kem512_encaps_step(st, n)
    [] c = "decaps" -> fips203_kem512_decaps_step(st, n)

\* the number of statements of call c
CallSteps(c) ==
  CASE c = "keygen" -> 5
    [] c = "encaps" -> 6
    [] c = "decaps" -> 10

\* the caller's buffers when call c, begun on bufs, has frame st
CallReturn(c, bufs, st) ==
  CASE c = "keygen" -> [bufs EXCEPT !.ek = st.ek, !.dk = st.dk, !.seed = st.seed]
    [] c = "encaps" -> [bufs EXCEPT !.k0 = st.k, !.ct = st.ct, !.ek = st.ek, !.m = st.seed]
    [] c = "decaps" -> [bufs EXCEPT !.k1 = st.k, !.ct = st.ct, !.dk = st.dk_kem]

\* call c run from entry to return with nothing in between
CallAlone(c, bufs) ==
  CASE c = "keygen" -> fips203_kem512_keygen(bufs.ek, bufs.dk, bufs.seed)
    [] c = "encaps" -> fips203_kem512_encaps(bufs.k0, bufs.ct, bufs.ek, bufs.m)
    [] c = "decaps" -> fips203_kem512_decaps(bufs.k1, bufs.ct, bufs.dk)

RECURSIVE RunAlone(_, _)
RunAlone(calls, bufs) ==
  IF calls = << >> THEN << >>
  ELSE <<CallReturn(Head(calls), bufs, CallAlone(Head(calls), bufs))>>
         \o RunAlone(Tail(calls), CallReturn(Head(calls), bufs, CallAlone(Head(calls), bufs)))

Thread(calls, bufs) ==
  [calls |-> calls, cur |-> 1, n |-> 0, st |-> CallLocals(calls[1], bufs),
   bufs |-> bufs, alone |-> RunAlone(calls, bufs)]

\* thread 1 generates a key from seed id; thread 2 holds key material of its
\* own and encapsulation seed mid
Threads(b, id, mid) ==
  <<Thread(<<"keygen">>,
           [ek |-> Junk(FIPS203_KEM512_EK_SIZE, b), dk |-> Junk(FIPS203_KEM512_DK_SIZE, b),
            ct |-> Junk(FIPS203_KEM512_CT_SIZE, b), k0 |-> Junk(32, b), k1 |-> Junk(32, b),
            seed |-> SeedOf(id), m |-> Junk(32, b)]),
    Thread(<<"encaps", "decaps">>,
           [ek |-> ImportedEk, dk |-> ImportedDk,
            ct |-> Junk(FIPS203_KEM512_CT_SIZE, b), k0 |-> Junk(32, b), k1 |-> Junk(32, b),
            seed |-> Junk(64, b), m |-> MsgOf(mid)])>>

InitConc ==
  /\ KemInit(0)
  /\ CodecOff
  /\ PolyOff
  /\ th \in {Threads(b, 1, mid) : b \in {0, 170}, mid \in 0..(NumMsgs - 1)}
  /\ lut = [ntt |-> NTT_LUT, mul |-> MUL_LUT]

\* thread t runs its next statement; when the current call has returned,
\* the next statement is the first of the thread's next call
ThreadStep(t) ==
  /\ t \in DOMAIN th
  /\ ~(th[t].cur = Len(th[t].calls) /\ th[t].n = CallSteps(th[t].calls[th[t].cur]))
  /\ th' = [u \in DOMAIN th |->
              IF u # t THEN th[u]
              ELSE IF th[t].n < CallSteps(th[t].calls[th[t].cur])
                   THEN [th[t] EXCEPT !.st = CallStep(th[t].calls[th[t].cur], th[t].st, th[t].n),
                                      !.n = th[t].n + 1]
                   ELSE [th[t] EXCEPT
                           !.cur = th[t].cur + 1,
                           !.bufs = CallReturn(th[t].calls[th[t].cur], th[t].bufs, th[t].st),
                           !.st = CallStep(th[t].calls[th[t].cur + 1],
                                           CallLocals(th[t].calls[th[t].cur + 1],
                                                      CallReturn(th[t].calls[th[t].cur],
                                                                 th[t].bufs, th[t].st)),
                                           0),
                           !.n = 1]]
  /\ UNCHANGED <<lut, kemvars, codecvars, polyvars>>

NextConc == \E t \in 1..2 : ThreadStep(t)

SpecConc == InitConc /\ [][NextConc]_vars

(***************************************************************************)
(* Properties.                                                             *)
(***************************************************************************)
\* a decapsulation of the ciphertext the sender produced, under the key
\* pair keygen produced
HonestDone == pc = "done" /\ origin = "keygen" /\ ~tampered /\ ~rekeyed

\* z || ct, with z read from bytes [1600, 1632) of a decapsulation key
ZCt(dkbuf, c) ==
  [i \in 0..(32 + FIPS203_KEM512_CT_SIZE - 1) |->
     IF i < 32 THEN dkbuf[1600 + i] ELSE c[i - 32]]

\* a || b for two 32-byte strings
Cat32(a, b) == [i \in 0..63 |-> IF i < 32 THEN a[i] ELSE b[i - 32]]

\* C1: KEM round trip.  After keygen on a seed, encaps to the ek it
\* produced and decaps of the resulting ciphertext under the dk it
\* produced, the receiver's key K' equals the sender's key K.
C1_RoundTrip == HonestDone => k1 = k0

\* C2: decapsulation selection.  decaps computes m' = Decrypt(dk_PKE, ct),
\* (K', r') = SHA3-512(m' || h), K_rej = SHAKE256(z || ct) and
\* ct' = Encrypt(ek_PKE, m', r'); the key it returns is K' when ct' = ct in
\* every byte and K_rej otherwise, and nothing else.
C2_Selection ==
  pc = "done" =>
    /\ de.dec.dk = Slice(dk, 0, 768) /\ de.dec.ct = ct
    /\ de.kr = sha3_512(Cat32(de.dec.m, Slice(dk, 1568, 32)), 64)
    /\ de.k_rej = shake256(ZCt(dk, ct), 32 + FIPS203_KEM512_CT_SIZE)
    /\ de.enc.ek = Slice(dk, 768, 800)
    /\ Slice(de.enc.m, 0, 32) = de.dec.m
    /\ de.enc.enc_rand = Slice(de.kr, 32, 32)
    /\ de.ct2 = de.enc.ct
    /\ k1 = IF \A i \in 0..(FIPS203_KEM512_CT_SIZE - 1) : de.ct2[i] = ct[i]
            THEN Slice(de.kr, 0, 32)
            ELSE de.k_rej
    /\ DOMAIN k1 = 0..31

\* C2's case: a decapsulation whose re-encryption matches the ciphertext
\* and returns K', which is not K_rej
C2_Accepted ==
  /\ pc = "done"
  /\ de.ct2 = ct
  /\ k1 = Slice(de.kr, 0, 32)
  /\ k1 # de.k_rej

\* C3: implicit rejection.  A decapsulation that rejects returns
\* SHAKE256(z || ct); two decapsulations that reject the same ct under
\* keys with the same z return the same 32 bytes.
C3_ImplicitRejection ==
  /\ (pc = "done" /\ de.ct2 # ct) =>
        k1 = shake256(ZCt(dk, ct), 32 + FIPS203_KEM512_CT_SIZE)
  /\ \A i \in DOMAIN log : \A j \in DOMAIN log :
        (/\ log[i].rej
         /\ log[j].rej
         /\ log[i].ct = log[j].ct
         /\ Slice(log[i].dk, 1600, 32) = Slice(log[j].dk, 1600, 32))
        => log[i].k = log[j].k

\* C3's case: the same ciphertext rejected under two keys that differ but
\* share a z that is not all zero
C3_TwoKeysSameZ ==
  /\ Len(log) = 2
  /\ log[1].rej /\ log[2].rej
  /\ log[1].ct = log[2].ct
  /\ log[1].dk # log[2].dk
  /\ Slice(log[1].dk, 1600, 32) = Slice(log[2].dk, 1600, 32)
  /\ log[1].dk[1600] # 0
  /\ log[1].k = log[2].k

\* C4: key vectors are contiguous 384-byte blocks.  After keygen the
\* encoding of polynomial i of t-hat is at bytes [384 i, 384 i + 384) of ek
\* with rho at [768, 800), and the encoding of polynomial i of s-hat is at
\* bytes [384 i, 384 i + 384) of dk.
C4_KeyBlocks ==
  (pc = "keyed" /\ origin = "keygen") =>
    /\ \A i \in 0..(PKE512_K - 1) :
          /\ Slice(ek, 384 * i, 384) = poly_encode(kg.pke.t[i])
          /\ Slice(dk, 384 * i, 384) = poly_encode(kg.pke.se[i])
    /\ Slice(ek, 384 * PKE512_K, 32) = Slice(kg.pke.rs, 0, 32)

\* C5: decapsulation-key layout.  After keygen on seed = z || d, dk is
\* 1632 bytes: what PKE keygen left in its first 768 bytes, then ek (800
\* bytes at 768), SHA3-256(ek) (32 bytes at 1568), z = seed[0..32) (32
\* bytes at 1600); decaps takes dk_PKE, ek_PKE, h and z from those offsets.
C5_DkLayout ==
  /\ (origin = "keygen" /\ ~rekeyed) =>
        /\ DOMAIN dk = 0..1631 /\ DOMAIN ek = 0..799
        /\ kg.pke.seed = Slice(seed, 32, 32)
        /\ \A i \in 0..767 : dk[i] = kg.pke.dk[i]
        /\ \A i \in 0..799 : dk[768 + i] = ek[i]
        /\ Slice(dk, 1568, 32) = sha3_256(ek, 800)
        /\ \A i \in 0..31 : dk[1600 + i] = seed[i]
  /\ pc = "done" =>
        /\ \A i \in 0..767 : de.dk_pke[i] = dk[i]
        /\ \A i \in 0..799 : de.ek_pke[i] = dk[768 + i]
        /\ \A i \in 0..31 : de.h[i] = dk[1568 + i]
        /\ \A i \in 0..31 : de.z[i] = dk[1600 + i]
        /\ de.dec.dk = de.dk_pke /\ de.enc.ek = de.ek_pke

\* C5's case: decaps has read a key that keygen laid out from a seed whose
\* two halves differ
C5_KeygenThenDecaps ==
  /\ pc = "done" /\ origin = "keygen" /\ ~rekeyed
  /\ Slice(seed, 0, 32) # Slice(seed, 32, 32)
  /\ de.z = Slice(seed, 0, 32)

\* C6: ciphertext layout.  Encrypt leaves the 10-bit encoding of u[i] at
\* bytes [320 i, 320 i + 320) and the 4-bit encoding of v at the last 128
\* bytes of a ciphertext of exactly 768 bytes, so no byte keeps what the
\* buffer held before; decrypt reads u[i] and v from the same offsets.
C6_CtLayout ==
  /\ (pc = "ready" /\ ~tampered) =>
        /\ DOMAIN ct = 0..767
        /\ \A i \in 0..(PKE512_K - 1) : \A j \in 0..319 :
              ct[320 * i + j] = poly_encode_10bit(en.pke.u[i])[j]
        /\ \A j \in 0..127 : ct[640 + j] = poly_encode_4bit(en.pke.v)[j]
  /\ pc = "done" =>
        /\ \A i \in 0..(PKE512_K - 1) :
              de.dec.u[i] = poly_decode_10bit([j \in 0..319 |-> ct[320 * i + j]])
        /\ de.dec.v = poly_decode_4bit([j \in 0..127 |-> ct[640 + j]])

\* C6's case: a ciphertext written over a buffer that held 0xAA in every
\* byte, then decrypted
C6_WrittenOverJunk ==
  /\ pc = "done" /\ ~tampered
  /\ junk = 170
  /\ ct = en.ct

\* C7: every byte of the keys is produced by keygen.  The ek and dk that
\* keygen leaves are those it leaves in zeroed buffers: they depend on
\* the seed alone, not on what the buffers held before the call.
C7_KeysFromSeedAlone ==
  (pc = "keyed" /\ origin = "keygen") =>
    /\ ek = fips203_kem512_keygen(ZeroBytes(800), ZeroBytes(1632), seed).ek
    /\ dk = fips203_kem512_keygen(ZeroBytes(800), ZeroBytes(1632), seed).dk

\* C8: encapsulation derivation.  encaps(ek, m) returns K = the first 32
\* bytes of SHA3-512(m || SHA3-256(ek)) and ct = Encrypt(ek, m, r) with r
\* the next 32 bytes; K and ct depend on (ek, m) alone.
C8_EncapsDerivation ==
  (pc = "ready" /\ ~tampered /\ ~rekeyed) =>
    /\ k0 = Slice(sha3_512(Cat32(m, sha3_256(ek, 800)), 64), 0, 32)
    /\ ct = pke512_encrypt(ZeroBytes(768), ek, m,
                           Slice(sha3_512(Cat32(m, sha3_256(ek, 800)), 64), 32, 32)).ct

\* C8's case: an encapsulation of a seed that is not all zero, into
\* buffers that held 0xAA in every byte
C8_Encapsulated ==
  /\ pc = "ready" /\ ~tampered /\ ~rekeyed
  /\ junk = 170
  /\ m[0] # 0
  /\ k0 = en.k

\* C9: 12-bit serialization round trip.  For a polynomial p with every
\* coefficient in [0, q), poly_decode(poly_encode(p)) = p.
C9_Encode12RoundTrip ==
  (cpc = "decoded" /\ cd = 12) => cq = cp

\* distance of a and b modulo q
DistModQ(a, b) ==
  IF (a - b) % Q <= (b - a) % Q THEN (a - b) % Q ELSE (b - a) % Q

\* ceil(q / 2^(d+1))
LossBound(d) == (Q + Shl(1, d + 1) - 1) \div Shl(1, d + 1)

\* C10: compression round-trip loss.  For d in {1, 4, 10} and x in [0, q),
\* the d-bit encoding of x decodes to a value whose distance from x modulo
\* q is at most ceil(q / 2^(d+1)).
C10_CompressLoss ==
  (cpc = "decoded" /\ cd \in {1, 4, 10}) =>
    \A i \in 0..255 : DistModQ(cq[i], cp[i]) <= LossBound(cd)

\* C11: NTT involution.  For a polynomial p with every coefficient in
\* [0, q), poly_inv_ntt(poly_ntt(p)) = p.
C11_NttRoundTrip ==
  (tst.op = "ntt" /\ tst.pc = "done") => tst.got = tst.A

\* C11's case: the round trip of a polynomial that holds q - 1 has returned
C11_RoundTripDone ==
  /\ tst.op = "ntt" /\ tst.pc = "done"
  /\ \E c \in 0..255 : tst.A[c] = Q - 1
  /\ tst.got = tst.A

\* the exponent of the monomial p
ExpOf(p) == CHOOSE i \in 0..255 : p[i] = 1

\* x^i * x^j in Z_q[x] / (x^256 + 1)
MonomialProduct(i, j) ==
  [c \in 0..255 |->
     IF i + j < 256 THEN (IF c = i + j THEN 1 ELSE 0)
     ELSE (IF c = i + j - 256 THEN Q - 1 ELSE 0)]

\* C12: Ring multiplication through the NTT domain.  For monomials x^i and
\* x^j, poly_inv_ntt(poly_mul(poly_ntt(x^i), poly_ntt(x^j))) is x^(i+j) when
\* i + j < 256 and (q - 1) x^(i+j-256) otherwise.
C12_MonomialProduct ==
  (tst.op = "mul" /\ tst.pc = "done")
    => tst.got = MonomialProduct(ExpOf(tst.A), ExpOf(tst.B))

\* (a0 b0 + a1 b1 gamma) mod q and (a0 b1 + a1 b0) mod q over the integers
ExactC0(a0, a1, b0, b1, gamma) ==
  (((a0 * b0) % Q) + ((((a1 * b1) % Q) * gamma) % Q)) % Q

ExactC1(a0, a1, b0, b1) == (((a0 * b1) % Q) + ((a1 * b0) % Q)) % Q

\* C18: Base-case multiply is exact.  After poly_mul(&got, &a, &b) with all
\* coefficients of a and b in [0, q), for every i in 0..127
\* got[2i] = (a0 b0 + a1 b1 MUL_LUT[i]) mod q and
\* got[2i+1] = (a0 b1 + a1 b0) mod q.
C18_ExactBaseCase ==
  ((tst.op = "mul" /\ tst.pc = "mul") \/ (tst.op = "mul_direct" /\ tst.pc = "done"))
    => \A i \in 0..127 :
         /\ tst.got[2 * i] = ExactC0(tst.a[2 * i], tst.a[2 * i + 1],
                                     tst.b[2 * i], tst.b[2 * i + 1], MUL_LUT[i])
         /\ tst.got[2 * i + 1] = ExactC1(tst.a[2 * i], tst.a[2 * i + 1],
                                         tst.b[2 * i], tst.b[2 * i + 1])

\* every coefficient of p is in [0, q)
InRange(p) == \A i \in 0..255 : p[i] \in 0..(Q - 1)

\* C13: Coefficient range is preserved by arithmetic.  The operands of the
\* tests are in [0, q); every polynomial that poly_add, poly_sub, poly_mul,
\* poly_ntt and poly_inv_ntt produce from them is in [0, q), and the results
\* of poly_add and poly_sub are the component-wise (a + b) mod q and
\* (a - b) mod q.
C13_RangePreserved ==
  tst.op \in {"ntt", "add", "sub", "mul", "mul_direct"} =>
    /\ InRange(tst.A) /\ InRange(tst.B)
    /\ InRange(tst.a) /\ InRange(tst.b) /\ InRange(tst.got)
    /\ (tst.op = "add" /\ tst.pc = "done")
         => \A i \in 0..255 : tst.got[i] = (tst.A[i] + tst.B[i]) % Q
    /\ (tst.op = "sub" /\ tst.pc = "done")
         => \A i \in 0..255 : tst.got[i] = (tst.A[i] - tst.B[i]) % Q

\* C13's case: poly_add has returned a sum in which a coefficient pair
\* reached q or more before the reduction
C13_SumReduced ==
  /\ tst.op = "add" /\ tst.pc = "done"
  /\ \E i \in 0..255 : tst.A[i] + tst.B[i] >= Q /\ tst.got[i] < tst.A[i]

\* the k-th d-bit field of the byte string b, bits packed little-endian
BitField(b, d, k) ==
  LET F(v, j) == v + BufBit(b, d * k + j) * (2 ^ j) IN Iter(F, 0, 0, d)

\* C14: Out-of-range key coefficients are reduced, not rejected.  For every
\* 384-byte input, poly_decode yields for each 12-bit field value v
\* (3329..4095 included) the coefficient v mod q, and every coefficient is
\* in [0, q).
C14_DecodeReduces ==
  (cpc = "parsed" /\ cd = 12) =>
    \A c \in 0..255 : cq[c] = BitField(cb, 12, c) % Q /\ cq[c] \in 0..(Q - 1)

\* C19: 12-bit encoding formula.  For each coefficient pair (a0, a1) =
\* (p[2i], p[2i+1]) poly_encode writes b0 = a0 & 0xFF,
\* b1 = ((a0 >> 8) & 0x0F) | ((a1 & 0x0F) << 4), b2 = (a1 >> 4) & 0xFF to
\* out[3i], out[3i+1], out[3i+2], and writes exactly bytes 0..383.
C19_Encode12Formula ==
  (cpc = "encoded" /\ cd = 12) =>
    /\ DOMAIN cb = 0..383
    /\ \A i \in 0..127 :
         /\ cb[3 * i] = BitAnd(cp[2 * i], 255)
         /\ cb[3 * i + 1] = BitOr(BitAnd(Shr(cp[2 * i], 8), 15),
                                  Shl(BitAnd(cp[2 * i + 1], 15), 4))
         /\ cb[3 * i + 2] = BitAnd(Shr(cp[2 * i + 1], 4), 255)

\* round(x * 2^d / q) mod 2^d, ties away from zero
CompressRule(d, x) == ((2 * x * (2 ^ d) + Q) \div (2 * Q)) % (2 ^ d)

\* C20: Compression matches the general rule.  For d in {1, 4, 10}, every x
\* in [0, q) and every coefficient position, the d-bit value that
\* poly_encode_{d}bit packs for x is round(x * 2^d / q) mod 2^d.
C20_CompressRule ==
  (cpc = "encoded" /\ cd \in {1, 4, 10}) =>
    \A k \in 0..255 : BitField(cb, cd, k) = CompressRule(cd, cp[k])

\* the control-flow steps of a decapsulation in which ct' matches ct
DecapsStepsOnMatch ==
  << <<"pke512_decrypt", 1>>,
     <<"memcpy(mh + 32, h, 32)", 1>>,
     <<"sha3_512", 1>>,
     <<"memcpy(zc, z, 32)", 1>>,
     <<"memcpy(zc + 32, ct, PKE512_CT_SIZE)", 1>>,
     <<"shake256", 1>>,
     <<"pke512_encrypt", 1>>,
     <<"ct_diff: r |= a[i] ^ b[i]", FIPS203_KEM512_CT_SIZE>>,
     <<"ct_diff: return r == 0", 1>>,
     <<"ct_copy: mask = 0xff", 1>>,
     <<"ct_copy: c[i] = (a[i] & mask) ^ (b[i] & ~mask)", 32>> >>

\* C15: Constant-time selection in decapsulation.  The sequence of
\* control-flow steps of a decapsulation is the same whether or not ct'
\* matches ct: the comparison visits all CT_SIZE byte positions, K' and K_rej
\* are both computed, and each output byte is blended under a mask; no step
\* depends on the comparison result.
C15_SameSteps ==
  pc = "done" => de.steps = DecapsStepsOnMatch

\* the poly_sample_ntt calls of the last keygen, encaps and decaps, each as
\* its locals were when it returned
SamplerRuns ==
  (IF kg # NoCall THEN {kg.pke.smp[c] : c \in 0..(PKE512_K * PKE512_K - 1)} ELSE {})
    \cup (IF en # NoCall THEN {en.pke.smp[c] : c \in 0..(PKE512_K * PKE512_K - 1)} ELSE {})
    \cup (IF de # NoCall THEN {de.enc.smp[c] : c \in 0..(PKE512_K * PKE512_K - 1)} ELSE {})

\* how many of the 2n samples of the first n squeezes of xof are below q
Candidates(xof, n) ==
  LET F(c, k) == c + (IF SampleNttPair(xof, k)[1] < Q THEN 1 ELSE 0)
                   + (IF SampleNttPair(xof, k)[2] < Q THEN 1 ELSE 0)
  IN Iter(F, 0, 0, n)

\* C17 as stated: every call has a fixed cost.  The number of 3-byte
\* squeezes poly_sample_ntt makes is the same in every call, whatever the
\* input bytes and the XOF output.
C17_FixedCost ==
  \A r1 \in SamplerRuns, r2 \in SamplerRuns : r1.sq = r2.sq

\* C17 amended: every poly_sample_ntt call ends with all 256 coefficients
\* filled, after at least 128 squeezes, and the number of squeezes it makes
\* is the least n for which the first n squeezes of its XOF hold 256 samples
\* below q: it is determined by the XOF output.
C17_SqueezesUntilFilled ==
  \A r \in SamplerRuns :
    /\ r.i = 256
    /\ r.sq \in 128..MaxSqueeze
    /\ Candidates(r.xof, r.sq) >= 256
    /\ Candidates(r.xof, r.sq - 1) < 256

\* C17's case: a key generation has returned whose poly_sample_ntt calls made
\* different numbers of squeezes
C17_CountsDiffer ==
  /\ kg # NoCall
  /\ \E c1, c2 \in 0..(PKE512_K * PKE512_K - 1) : kg.pke.smp[c1].sq # kg.pke.smp[c2].sq

\* the input buffers of call c as frame st holds them
CallInputs(c, st) ==
  CASE c = "keygen" -> <<st.seed>>
    [] c = "encaps" -> <<st.ek, st.seed>>
    [] c = "decaps" -> <<st.ct, st.dk_kem>>

\* thread t has returned from its last call
ThreadDone(t) ==
  th[t].cur = Len(th[t].calls) /\ th[t].n = CallSteps(th[t].calls[th[t].cur])

\* C16: No shared mutable state.  Under every interleaving of the
\* statements of concurrent keygen, encaps and decaps calls on disjoint
\* caller buffers, the tables NTT_LUT and MUL_LUT stay as they are, every
\* call leaves its input buffers (seed, ek, ct, dk) as it found them, and
\* every call that has returned left the buffers it leaves when run alone.
C16_NoInterference ==
  th # << >> =>
    /\ lut = [ntt |-> NTT_LUT, mul |-> MUL_LUT]
    /\ \A t \in DOMAIN th :
         /\ CallInputs(th[t].calls[th[t].cur], th[t].st)
              = CallInputs(th[t].calls[th[t].cur],
                           CallLocals(th[t].calls[th[t].cur], th[t].bufs))
         /\ th[t].cur > 1 => th[t].bufs = th[t].alone[th[t].cur - 1]
         /\ th[t].n = CallSteps(th[t].calls[th[t].cur])
              => CallReturn(th[t].calls[th[t].cur], th[t].bufs, th[t].st)
                   = th[t].alone[th[t].cur]

\* C16's case: thread 2 has returned from encaps and from decaps, with a
\* key written over its buffer, while thread 1 is between the first and the
\* last statement of keygen
C16_Overlapped ==
  /\ th # << >>
  /\ th[1].n \in 1..4
  /\ ThreadDone(2)
  /\ th[2].st.k # th[2].bufs.k1
  /\ th[2].st.k = th[2].alone[2].k1

\* round(y * q / 2^d), ties away from zero
DecompressRule(d, y) == (2 * y * Q + (2 ^ d)) \div (2 ^ (d + 1))

\* C21: Decompression matches the general rule.  For d in {1, 4, 10} and
\* every d-bit field y of the input bytes, the coefficient poly_decode_{d}bit
\* stores is round(y * q / 2^d), with no overflow of the 16-bit slot.
C21_DecompressRule ==
  (cpc \in {"parsed", "decoded"} /\ cd \in {1, 4, 10}) =>
    \A k \in 0..255 : cq[k] = DecompressRule(cd, BitField(cb, cd, k))

\* every coefficient of every polynomial of the vector v is in [0, q)
VecInRange(v) == \A i \in DOMAIN v : InRange(v[i])

\* the polynomials of a pke512_keygen, pke512_encrypt and pke512_decrypt frame
KeygenPolysInRange(f) == VecInRange(f.a) /\ VecInRange(f.se) /\ VecInRange(f.t)

EncryptPolysInRange(f) ==
  /\ VecInRange(f.t) /\ VecInRange(f.a) /\ VecInRange(f.r) /\ VecInRange(f.e1)
  /\ InRange(f.e2) /\ VecInRange(f.u) /\ InRange(f.mu) /\ InRange(f.v)

DecryptPolysInRange(f) ==
  /\ VecInRange(f.u) /\ InRange(f.v) /\ VecInRange(f.s) /\ VecInRange(f.u_ntt)
  /\ InRange(f.su) /\ InRange(f.w)

\* C22: Data-model invariant over the whole pipeline.  Every coefficient of
\* every polynomial of keygen, encaps and decaps - sampled, decoded from a
\* key, decoded and decompressed from a ciphertext, or computed - is in
\* [0, q), whatever the key and ciphertext bytes.
C22_AllCoefficientsInRange ==
  /\ kg # NoCall => KeygenPolysInRange(kg.pke)
  /\ en # NoCall => EncryptPolysInRange(en.pke)
  /\ de # NoCall => DecryptPolysInRange(de.dec) /\ EncryptPolysInRange(de.enc)

\* v - InverseNTT(s-hat[0] * NTT(u[0]) + s-hat[1] * NTT(u[1])) for the key
\* bytes dkb and the ciphertext c, with the decoders and the arithmetic of
\* the code
DecryptW(dkb, c) ==
  poly_sub(poly_decode_4bit(Slice(c, 640, 128)),
           poly_inv_ntt(poly_add(poly_mul(poly_decode(Slice(dkb, 0, 384)),
                                          poly_ntt(poly_decode_10bit(Slice(c, 0, 320)))),
                                 poly_mul(poly_decode(Slice(dkb, 384, 384)),
                                          poly_ntt(poly_decode_10bit(Slice(c, 320, 320)))))))

Log2(n) == CHOOSE l \in 0..7 : 2 ^ l <= n /\ n < 2 ^ (l + 1)

\* the block that reads NTT_LUT[k] has len 128, 64, ..., 2 for k in 1, 2..3,
\* ..., 64..127, and touches the coefficients start .. start + 2 len - 1
BlockInBounds(b) ==
  /\ b.k \in 1..127
  /\ b.len = 128 \div (2 ^ Log2(b.k))
  /\ b.start % (2 * b.len) = 0
  /\ b.start >= 0 /\ b.start + 2 * b.len - 1 <= 255

\* C24: NTT butterfly schedule and bounds.  poly_ntt processes len = 128,
\* 64, ..., 2 with k from 1 upward, poly_inv_ntt len = 2, 4, ..., 128 with k
\* from 127 downward, k moving once per block; each processes exactly 127
\* blocks, reads each of NTT_LUT[1..127] once, and keeps j and j + len in
\* [0, 255]; both end.
C24_NttSchedule ==
  /\ (tst.op = "ntt" /\ tst.pc = "ntt") =>
       /\ Len(tst.blocks) = 127
       /\ \A n \in 1..127 : tst.blocks[n].k = n /\ BlockInBounds(tst.blocks[n])
       /\ \A n \in 1..126 :
            tst.blocks[n + 1].start
              = IF tst.blocks[n + 1].len = tst.blocks[n].len
                THEN tst.blocks[n].start + 2 * tst.blocks[n].len ELSE 0
  /\ (tst.op \in {"ntt", "mul"} /\ tst.pc = "done") =>
       /\ Len(tst.blocks) = 127
       /\ \A n \in 1..127 : tst.blocks[n].k = 128 - n /\ BlockInBounds(tst.blocks[n])
       /\ \A n \in 1..126 :
            tst.blocks[n + 1].start
              = IF tst.blocks[n + 1].len = tst.blocks[n].len
                THEN tst.blocks[n].start + 2 * tst.blocks[n].len ELSE 0

\* C24's case: a forward transform has ended after its last block, the one
\* of len 2 at start 252 that reads NTT_LUT[127]
C24_ForwardEnded ==
  /\ tst.op = "ntt" /\ tst.pc = "ntt"
  /\ Len(tst.blocks) = 127
  /\ tst.blocks[127] = [len |-> 2, start |-> 252, k |-> 127]
  /\ tst.blocks[1] = [len |-> 128, start |-> 0, k |-> 1]

\* the 7-bit reversal of n
BitRev7(n) ==
  LET F(r, j) == r + Bit(n, j) * (2 ^ (6 - j)) IN Iter(F, 0, 0, 7)

\* 17^e mod q
Pow17(e) ==
  LET F(acc, i) == (acc * 17) % Q IN Iter(F, 1, 0, e)

\* C25: Precomputed tables equal their formulas.  For every n in 0..127,
\* NTT_LUT[n] = 17^bitrev7(n) mod 3329 and
\* MUL_LUT[n] = 17^(2 bitrev7(n) + 1) mod 3329; both tables have exactly 128
\* entries.
C25_TablesMatchFormulas ==
  /\ DOMAIN lut.ntt = 0..127
  /\ DOMAIN lut.mul = 0..127
  /\ Len(NTT_LUT_values) = 128
  /\ Len(MUL_LUT_values) = 128
  /\ \A n \in 0..127 :
       /\ lut.ntt[n] = Pow17(BitRev7(n))
       /\ lut.mul[n] = Pow17(2 * BitRev7(n) + 1)

\* C25's case: a forward transform has read the table through to its last
\* entry, 17^127 mod q, and the table is as the formula says there
C25_TableRead ==
  /\ tst.op = "ntt" /\ tst.pc = "ntt"
  /\ tst.blocks[127].k = 127
  /\ lut.ntt[127] = Pow17(127)
  /\ lut.mul[127] = Pow17(255)

\* d1 = b0 | ((b1 & 0x0F) << 8) and d2 = (b1 >> 4) | (b2 << 4) of the n-th
\* 3-byte group of the stream of xof, as numbers
Group12(xof, n) ==
  <<shake128_xof_squeeze(xof, 3 * n) + 256 * (shake128_xof_squeeze(xof, 3 * n + 1) % 16),
    (shake128_xof_squeeze(xof, 3 * n + 1) \div 16) + 16 * shake128_xof_squeeze(xof, 3 * n + 2)>>

\* the samples below q of the first n groups, d1 before d2, in stream order
AcceptedStream(xof, n) ==
  LET F(acc, k) ==
        LET g == Group12(xof, k)
        IN acc \o (IF g[1] < Q THEN <<g[1]>> ELSE << >>)
               \o (IF g[2] < Q THEN <<g[2]>> ELSE << >>)
  IN Iter(F, << >>, 0, n)

\* how many of the two samples of the n-th group are below q
AcceptedInGroup(xof, n) ==
  LET g == Group12(xof, n)
  IN (IF g[1] < Q THEN 1 ELSE 0) + (IF g[2] < Q THEN 1 ELSE 0)

StreamBit(buf, b) == (buf[b \div 8] \div (2 ^ (b % 8))) % 2

\* the sum of the n bits of buf from bit lo on
BitSum(buf, lo, n) ==
  LET F(acc, j) == acc + StreamBit(buf, lo + j) IN Iter(F, 0, 0, n)

\* C27: Centered-binomial sampler.  For eta in {2, 3}, coefficient i of
\* poly_sample_cbd_eta is (x + (q - y)) mod q with x the sum of bits
\* 2 eta i .. 2 eta i + eta - 1 and y the sum of bits 2 eta i + eta ..
\* 2 eta i + 2 eta - 1 of the 64 eta bytes of PRF output; every coefficient
\* is in {0..eta} or {q-eta..q-1}, and no bit beyond the buffer is read.
C27_CbdFormula ==
  (tst.op = "cbd" /\ tst.pc = "done") =>
    /\ tst.eta \in {2, 3}
    /\ DOMAIN tst.buf = 0..(64 * tst.eta - 1)
    /\ DOMAIN tst.got = 0..255
    /\ \A i \in 0..255 :
         /\ (2 * tst.eta * i + 2 * tst.eta - 1) \div 8 \in DOMAIN tst.buf
         /\ tst.got[i] = (BitSum(tst.buf, 2 * tst.eta * i, tst.eta)
                          + (Q - BitSum(tst.buf, 2 * tst.eta * i + tst.eta, tst.eta))) % Q
         /\ tst.got[i] \in (0..tst.eta) \cup ((Q - tst.eta)..(Q - 1))

\* C27's case: a polynomial has been sampled with eta = 3 that has a
\* coefficient of each sign and a coefficient of magnitude 3
C27_SampledBothSigns ==
  /\ tst.op = "cbd" /\ tst.pc = "done" /\ tst.eta = 3
  /\ \E i \in 0..255 : tst.got[i] \in 1..3
  /\ \E i \in 0..255 : tst.got[i] \in (Q - 3)..(Q - 1)
  /\ \E i \in 0..255 : tst.got[i] \in {3, Q - 3}

\* the counters b in 0..2k for which p is the CBD(eta) sample of seed and b,
\* transformed by poly_ntt or not
CountersOf(eta, prf_seed, p, transformed) ==
  {b \in 0..(2 * PKE512_K) :
     p = IF transformed THEN poly_ntt(poly_sample_cbd_eta(eta, prf_seed, b))
                        ELSE poly_sample_cbd_eta(eta, prf_seed, b)}

\* s[i] is NTT(CBD3(sigma, i)) and e[i] is NTT(CBD3(sigma, k + i))
KeygenSchedule(g) ==
  \A i \in 0..(PKE512_K - 1) :
    /\ CountersOf(3, Slice(g.rs, 32, 32), g.se[i], TRUE) = {i}
    /\ CountersOf(3, Slice(g.rs, 32, 32), g.se[PKE512_K + i], TRUE) = {PKE512_K + i}

\* r[i] is NTT(CBD3(rand, i)), e1[i] is CBD2(rand, k + i), e2 is CBD2(rand, 2k)
EncryptSchedule(e) ==
  /\ \A i \in 0..(PKE512_K - 1) :
       /\ CountersOf(3, e.enc_rand, e.r[i], TRUE) = {i}
       /\ CountersOf(2, e.enc_rand, e.e1[i], FALSE) = {PKE512_K + i}
  /\ CountersOf(2, e.enc_rand, e.e2, FALSE) = {2 * PKE512_K}

\* C28: Sampling schedule of the PKE.  Keygen samples s[i] with CBD(eta1)
\* from sigma with counter i and e[i] with counter k + i, applying the NTT
\* to each; encrypt samples r[i] with CBD(eta1) and counter i and applies
\* the NTT, e1[i] with CBD(eta2) and counter k + i and e2 with CBD(eta2) and
\* counter 2k, leaving e1 and e2 untransformed.  No counter is used for two
\* polynomials of one call.
C28_SamplingSchedule ==
  /\ kg # NoCall => KeygenSchedule(kg.pke)
  /\ en # NoCall => EncryptSchedule(en.pke)
  /\ de # NoCall => EncryptSchedule(de.enc)

\* C28's case: a key generation and an encapsulation have both returned,
\* each with its noise polynomials sampled
C28_BothSampled ==
  /\ kg # NoCall /\ en # NoCall
  /\ \A i \in 0..(2 * PKE512_K - 1) : kg.pke.se[i] # ZeroPoly
  /\ \A i \in 0..(PKE512_K - 1) : en.pke.r[i] # ZeroPoly /\ en.pke.e1[i] # ZeroPoly
  /\ en.pke.e2 # ZeroPoly

\* the polynomial poly_sample_ntt writes for rho, i and j
SampleNTT(rho, i, j) == poly_sample_ntt(ZeroPoly, rho, i, j)

\* rho as pke512_encrypt reads it from ek
RhoOfEk(e) == Slice(e, 384 * PKE512_K, 32)

\* C29: Matrix transposition between keygen and encrypt.  The entry stored
\* at index i k + j is SampleNTT(rho, i, j) in keygen and SampleNTT(rho, j, i)
\* in encrypt, so for the same rho the matrix of encrypt is the transpose of
\* the matrix of keygen.
C29_Transposed ==
  \A i \in 0..(PKE512_K - 1), j \in 0..(PKE512_K - 1) :
    /\ kg # NoCall =>
         kg.pke.a[i * PKE512_K + j] = SampleNTT(Slice(kg.pke.rs, 0, 32), i, j)
    /\ en # NoCall =>
         en.pke.a[i * PKE512_K + j] = SampleNTT(RhoOfEk(en.pke.ek), j, i)
    /\ (kg # NoCall /\ en # NoCall /\ RhoOfEk(en.pke.ek) = Slice(kg.pke.rs, 0, 32)) =>
         en.pke.a[i * PKE512_K + j] = kg.pke.a[j * PKE512_K + i]

\* C29's case: an encapsulation has run on the rho of the key generation
\* before it, and the matrix is not symmetric
C29_SameRhoBothSides ==
  /\ kg # NoCall /\ en # NoCall
  /\ RhoOfEk(en.pke.ek) = Slice(kg.pke.rs, 0, 32)
  /\ kg.pke.a[1] # kg.pke.a[PKE512_K]
  /\ en.pke.a[1] = kg.pke.a[PKE512_K]

\* the sum over i < k of poly_mul(a[first + i], b[i])
ProductSum(a, first, b) ==
  LET F(acc, i) == poly_add(acc, poly_mul(a[first + i], b[i]))
  IN Iter(F, ZeroPoly, 0, PKE512_K)

\* C30: Module products overwrite their output.  For every prior content of
\* the output buffer, mat2_mul(out, A, v) leaves out[i] = the sum over j < k
\* of poly_mul(A[i k + j], v[j]) and vec2_mul(c, a, b) leaves c = the sum
\* over i < k of poly_mul(a[i], b[i]): the result does not depend on what
\* out / c held before the call.
C30_ProductsOverwrite ==
  /\ (tst.op = "mat2_mul" /\ tst.pc = "done") =>
       \A i \in 0..(PKE512_K - 1) : tst.got[i] = ProductSum(tst.A, i * PKE512_K, tst.B)
  /\ (tst.op = "vec2_mul" /\ tst.pc = "done") =>
       tst.got = ProductSum(tst.A, 0, tst.B)

====
